---------------------------- MODULE Spec2Model ----------------------------
(***************************************************************************)
(* Webhook capture -> persist -> forward pipeline of flowhook.             *)
(*                                                                         *)
(* Modelled components: the capture handler (CaptureHandler), the sliding  *)
(* window rate limiter (CheckRateLimit), the HMAC verifier                 *)
(* (VerifySignature), the SSE fan-out (broadcastToSSE) and the forwarder   *)
(* (triggerForwarding, forwardRequest, executeForward,                     *)
(* recordForwardAttempt).                                                  *)
(*                                                                         *)
(* Strings that the code takes apart (signature header values) are         *)
(* sequences of tokens; request bodies are sequences of bytes; time is in  *)
(* whole seconds.                                                          *)
(***************************************************************************)
EXTENDS Integers, Sequences, FiniteSets, TLC

(***************************************************************************)
(* Bounds of the model                                                     *)
(***************************************************************************)
\* largest max_retries a forwarding rule is created with
MaxRetriesRule == 3
\* MAX_BODY_SIZE of the configuration, in bytes
MaxBodySize == 2
\* largest rate limit an endpoint is configured with
MaxLimit == 2
\* CheckRateLimit is called again while fewer critical sections than this have run
MaxCalls == 3
\* longest table of transformations
MaxTransforms == 2

(***************************************************************************)
(* Program constants                                                       *)
(***************************************************************************)
Minute == 60
Hour == 3600
Day == 86400
SSEBuffer == 10
StatusOK == 200
StatusBadRequest == 400
StatusUnauthorized == 401
StatusNotFound == 404
StatusRequestEntityTooLarge == 413
StatusTooManyRequests == 429
StatusInternalServerError == 500

NULL == "NULL"

\* capture requests, one CaptureHandler goroutine each; the request id is the
\* id of the goroutine that inserted the row
CapIds == {1, 2}
Endpoints == {"e1"}
\* the endpoints that can have a retention policy: e2 is an endpoint of
\* another user, whose requests the model does not follow through the capture
PolicyEndpoints == Endpoints \cup {"e2"}
RuleIds == {"k1", "k2"}

VARIABLES
    clock,              \* time.Now(), seconds
    limiter,            \* globalRateLimiter.requests: endpoint key -> timestamps
    admitted,           \* history: every timestamp CheckRateLimit ever appended
    lockSeq,            \* history: number of CheckRateLimit critical sections run
    endpoint_settings,  \* table endpoint_settings: endpoint -> row or NULL
    forwarding_rules,   \* table forwarding_rules: rule id -> row
    transformations,    \* table transformations: rows in created_at order
    requests,           \* table requests: set of rows
    forward_attempts,   \* table forward_attempts: <<request, rule>> -> rows in insertion order
    caps,               \* CaptureHandler goroutines
    pendingTrigger,     \* triggerForwarding goroutines spawned and not yet run
    tasks,              \* forwardRequest goroutines: <<request, rule>> -> locals
    sseConnections,     \* sseMgr.connections: key -> set of connections
    sseCh,              \* the channel of each connection
    retention_policies, \* table retention_policies: endpoint -> row
    replays,            \* table replays: replay id -> row
    replayTasks,        \* ReplayRequest handlers and their executeReplay goroutines
    sseKeys,            \* the keys present in sseMgr.connections
    sseReaders,         \* sseMgr.mu: the goroutines that hold the read lock
    sseClosed,          \* the connections whose channel was closed
    ssePanic,           \* a goroutine sent on a closed channel
    subs,               \* RealtimeHandler goroutines
    pubs                \* broadcastToSSE calls

vars == <<clock, limiter, admitted, lockSeq, endpoint_settings, forwarding_rules,
          transformations, requests, forward_attempts, caps, pendingTrigger, tasks,
          sseConnections, sseCh, retention_policies, replays, replayTasks,
          sseKeys, sseReaders, sseClosed, ssePanic, subs, pubs>>

limiterVars == <<clock, limiter, admitted, lockSeq>>
replayVars == <<replays, replayTasks>>
ruleTables == <<endpoint_settings, forwarding_rules, transformations, retention_policies>>
tableVars == <<ruleTables, replayVars>>
sseVars == <<sseConnections, sseCh>>
busVars == <<sseKeys, sseReaders, sseClosed, ssePanic, subs, pubs>>
forwardVars == <<forward_attempts, pendingTrigger, tasks>>

Max(a, b) == IF a >= b THEN a ELSE b
Range(s) == {s[i] : i \in DOMAIN s}

(***************************************************************************)
(* Forwarder                                                               *)
(***************************************************************************)

\* bytes.Contains(body, pattern)
Contains(s, p) ==
    \E i \in 0..(Len(s) - Len(p)) : SubSeq(s, i + 1, i + Len(p)) = p

\* r.Header.Get(name): the first value of the header, "" when absent
HeaderGet(headers, name) ==
    IF Len(headers[name]) > 0 THEN headers[name][1] ELSE <<>>

\* default: return true
UnknownConditionMatches_Closed == FALSE
UnknownConditionMatches == TRUE

checkForwardingCondition(conditionType, conditionConfig, headers, body) ==
    CASE conditionType = "always" -> TRUE
      [] conditionType = "header_match" ->
            IF ~({"header", "value"} \subseteq conditionConfig.keys)
            THEN FALSE
            ELSE LET headerName == conditionConfig.header
                 IN  IF headerName \in DOMAIN headers /\ Len(headers[headerName]) > 0
                     THEN headers[headerName][1] = conditionConfig.value
                     ELSE FALSE
      [] conditionType = "body_match" ->
            IF ~("pattern" \in conditionConfig.keys)
            THEN FALSE
            ELSE Contains(body, conditionConfig.pattern)
      [] OTHER -> UnknownConditionMatches

\* the rule passes triggerForwarding's filter for this request
RuleFires_AnyRule(rule, req) ==
    /\ rule.endpoint_id = req.endpoint_id
    /\ \/ rule.condition_type = NULL
       \/ checkForwardingCondition(rule.condition_type, rule.condition_config,
                                   req.headers, req.body)
RuleFires(rule, req) ==
    /\ rule.endpoint_id = req.endpoint_id
    /\ rule.enabled
    /\ \/ rule.condition_type = NULL
       \/ checkForwardingCondition(rule.condition_type, rule.condition_config,
                                   req.headers, req.body)

(***************************************************************************)
(* Transformations                                                         *)
(***************************************************************************)

\* A value handed to a transformation: a JSON object (a Go map, which the
\* script engine shares with the script), a string or nil; "applied" lists
\* the transformations whose effect the value carries.  A script is known by
\* what it does when run: "ok" returns a value of the kind of its input,
\* "object" returns a JSON object, "null" returns null, "throws" fails,
\* "mutates_throws" assigns to its input and then fails.
Effect(t, whole) == [t |-> t, whole |-> whole]
HeadersData == [kind |-> "map", applied |-> <<>>]
\* json.Unmarshal(body, &bodyData), for the bodies of the model: the JSON
\* texts among them are null, a string literal without escapes, and a
\* number written n or n.0
JsonNull == <<110, 117, 108, 108>>
IsJsonString(b) ==
    /\ Len(b) >= 2 /\ b[1] = 34 /\ b[Len(b)] = 34
    /\ \A i \in 2..(Len(b) - 1) : b[i] >= 32 /\ b[i] < 128 /\ b[i] \notin {34, 92}
IsJsonInt(b) ==
    /\ Len(b) >= 1 /\ \A i \in DOMAIN b : b[i] \in 48..57
    /\ Len(b) = 1 \/ b[1] # 48
IsJsonNumber(b) ==
    \/ IsJsonInt(b)
    \/ /\ Len(b) >= 3 /\ b[Len(b) - 1] = 46 /\ b[Len(b)] = 48
       /\ IsJsonInt(SubSeq(b, 1, Len(b) - 2))
\* the Go string that bodyData holds: the text of a JSON string literal
\* without its quotes, string(body) for a body that is not JSON
BodyString(body) == IF IsJsonString(body) THEN SubSeq(body, 2, Len(body) - 1) ELSE body
\* json.Marshal of the float64 that a JSON number was decoded to
MarshalNumber(body) == IF IsJsonInt(body) THEN body ELSE SubSeq(body, 1, Len(body) - 2)

\* bodyData: nil for an empty body and for the JSON null, the decoded value
\* for a body that is JSON, string(body) for a body that is not
BodyData(body) ==
    [kind |-> IF Len(body) = 0 \/ body = JsonNull THEN "nil"
              ELSE IF IsJsonNumber(body) THEN "number" ELSE "string",
     applied |-> <<>>]
NilData == [kind |-> "nil", applied |-> <<>>]

\* ExecuteTransformation(language, script, input) for transformation t:
\* "out" is the value returned, "after" the input as the call leaves it.  A
\* script run by the JavaScript engine gets the Go map itself (vm.Set("input",
\* input)), so what it assigns before it throws stays in the map; jq works
\* on its own copy, and a string or nil cannot be assigned to.
ExecuteTransformation(t, language, script, input) ==
    IF language \notin {"javascript", "js", "jq", "jsonata"}
    THEN [err |-> TRUE, out |-> NilData, after |-> input]
    ELSE IF script = "ok"
    THEN [err |-> FALSE, out |-> [input EXCEPT !.applied = Append(@, Effect(t, TRUE))],
          after |-> input]
    ELSE IF script = "object"
    THEN [err |-> FALSE,
          out |-> [kind |-> "map", applied |-> Append(input.applied, Effect(t, TRUE))],
          after |-> input]
    ELSE IF script = "null"
    THEN [err |-> FALSE, out |-> NilData, after |-> input]
    ELSE IF script = "mutates_throws" /\ language # "jq" /\ input.kind = "map"
    THEN [err |-> TRUE, out |-> NilData,
          after |-> [input EXCEPT !.applied = Append(@, Effect(t, FALSE))]]
    ELSE [err |-> TRUE, out |-> NilData, after |-> input]

\* WHERE endpoint_id = $1 AND enabled = TRUE AND apply_to IN ($2, 'both')
\* ORDER BY created_at ASC: the positions of the selected rows, the table
\* being kept in creation order
RECURSIVE SelectTransformations(_, _, _, _)
SelectTransformations(table, endpointID, applyTo, i) ==
    IF i > Len(table) THEN <<>>
    ELSE (IF /\ table[i].endpoint_id = endpointID /\ table[i].enabled
             /\ table[i].apply_to \in {applyTo, "both"}
          THEN <<i>> ELSE <<>>)
         \o SelectTransformations(table, endpointID, applyTo, i + 1)

\* the loop over rows: result = transformed on success, continue on error
\* (result still names the value that was handed to the script)
RECURSIVE FoldTransformations(_, _, _, _)
FoldTransformations(table, selected, j, result) ==
    IF j > Len(selected) THEN result
    ELSE LET t == selected[j]
             r == ExecuteTransformation(t, table[t].language, table[t].script, result)
         IN  FoldTransformations(table, selected, j + 1,
                                 IF r.err THEN r.after ELSE r.out)

ApplyTransformations(table, endpointID, applyTo, data, dbOk) ==
    IF ~dbOk THEN [err |-> TRUE, result |-> NilData]
    ELSE [err |-> FALSE,
          result |-> FoldTransformations(table,
                        SelectTransformations(table, endpointID, applyTo, 1), 1, data)]

\* the value handed to ApplyTransformations as the call leaves it: result
\* names that value until the first transformation succeeds, and the scripts
\* run until then may have assigned to it
RECURSIVE InputAfter(_, _, _, _)
InputAfter(table, selected, j, data) ==
    IF j > Len(selected) THEN data
    ELSE LET t == selected[j]
             r == ExecuteTransformation(t, table[t].language, table[t].script, data)
         IN  IF r.err THEN InputAfter(table, selected, j + 1, r.after) ELSE r.after

\* forwardRequest: transformedHeaders = originalHeaders when
\* ApplyRequestTransformations returns an error.  originalHeaders is the map
\* that was handed to the transformations of the headers, which have run
\* when the error comes from the fetch for the body.
FallbackHeaders(table, endpointID, headers, dbOkH) ==
    IF ~dbOkH THEN headers
    ELSE InputAfter(table, SelectTransformations(table, endpointID, "request", 1), 1, headers)

\* ApplyRequestTransformations: headersMap is the result of the headers'
\* transformations when that is a map; any other result goes through
\* json.Marshal and json.Unmarshal into the map, which null and a string
\* leave nil
HeadersMap(result) == IF result.kind = "map" THEN result ELSE NilData

\* ApplyRequestTransformations and forwardRequest's fallback to the original
\* headers and body when it returns an error
RequestTransformations(table, endpointID, headers, body, dbOkH, dbOkB) ==
    LET h == ApplyTransformations(table, endpointID, "request", headers, dbOkH)
        b == ApplyTransformations(table, endpointID, "request", body, dbOkB)
    IN  IF h.err \/ b.err
        THEN [headers |-> FallbackHeaders(table, endpointID, headers, dbOkH),
              body |-> body]
        ELSE [headers |-> HeadersMap(h.result), body |-> b.result]

\* forwardRequest, "Merge transformed headers with rule headers": the
\* entries of transformedHeaders, then those of rule.Headers over them.
\* "rule" are the names the rule sets, "chain" the map whose entries are
\* sent under every other name.
ForwardHeaders(transformedHeaders, ruleHeaders) ==
    [chain |-> transformedHeaders, rule |-> ruleHeaders]

\* forwardRequest, "Convert transformed body back to bytes": a string goes
\* as its bytes, any other value that is not nil as its JSON encoding; for
\* nil the body of the captured request is taken.  "bytes" is filled where
\* the bytes are known, for the captured body and for a value that no
\* transformation has touched; the other values are known by their data.
ForwardBody_Marshal(transformedBody, body) ==
    IF transformedBody.kind # "nil"
    THEN [form |-> "json", data |-> transformedBody, bytes |-> <<>>]
    ELSE [form |-> "original", data |-> NilData, bytes |-> body]
ForwardBody(transformedBody, body) ==
    IF transformedBody.kind = "string"
    THEN [form |-> "verbatim", data |-> transformedBody,
          bytes |-> IF transformedBody.applied = <<>> THEN BodyString(body) ELSE <<>>]
    ELSE IF transformedBody.kind # "nil"
    THEN [form |-> "json", data |-> transformedBody,
          bytes |-> IF transformedBody.applied = <<>> /\ transformedBody.kind = "number"
                    THEN MarshalNumber(body) ELSE <<>>]
    ELSE [form |-> "original", data |-> NilData, bytes |-> body]

(***************************************************************************)
(* Backoff                                                                 *)
(***************************************************************************)

\* base, min_ms and max_ms are float64; the model counts min_ms and max_ms
\* in units of 1/PerMs millisecond, and bases are whole numbers
PerMs == 2
DefaultBase == 2
DefaultMinMs == 1000
DefaultMaxMs == 30000

\* time.Duration(delayMs): the conversion drops the fraction, towards zero
Trunc(x) == IF x >= 0 THEN x \div PerMs ELSE -((-x) \div PerMs)

\* case "exponential": delayMs = minMs * (base * float64(attempt-1))
ExponentialDelay_Next(minMs, base, attempt) == minMs * (base * attempt)
ExponentialDelay(minMs, base, attempt) == minMs * (base * (attempt - 1))

\* case "linear": delayMs = minMs * float64(attempt)
LinearDelay_Flat(minMs, attempt) == minMs
LinearDelay(minMs, attempt) == minMs * attempt

\* if delayMs > maxMs { delayMs = maxMs }; if delayMs < minMs { delayMs = minMs }
Clamp_NoMin(delayMs, minMs, maxMs) == IF delayMs > maxMs THEN maxMs ELSE delayMs
Clamp(delayMs, minMs, maxMs) ==
    LET d == IF delayMs > maxMs THEN maxMs ELSE delayMs
    IN  IF d < minMs THEN minMs ELSE d

\* the values calculateBackoff works with, defaults substituted for zero
\* (an absent key reads as zero)
BackoffBase_NoDefault(config) == config.base
BackoffBase(config) == IF config.base = 0 THEN DefaultBase ELSE config.base
BackoffMin(config) == IF config.min_ms = 0 THEN DefaultMinMs * PerMs ELSE config.min_ms
BackoffMax(config) == IF config.max_ms = 0 THEN DefaultMaxMs * PerMs ELSE config.max_ms

\* calculateBackoff(attempt, config), in whole milliseconds
calculateBackoff(attempt, config) ==
    LET base == BackoffBase(config)
        minMs == BackoffMin(config)
        maxMs == BackoffMax(config)
        delayMs == CASE config.type = "exponential" -> ExponentialDelay(minMs, base, attempt)
                     [] config.type = "linear" -> LinearDelay(minMs, attempt)
                     [] OTHER -> minMs
    IN  Trunc(Clamp(delayMs, minMs, maxMs))

\* backoff_config as CreateForwardingRule stores it when the request gives none
DefaultBackoff == [type |-> "exponential", base |-> DefaultBase,
                   min_ms |-> DefaultMinMs * PerMs, max_ms |-> DefaultMaxMs * PerMs]

(***************************************************************************)
(* Retry loop                                                              *)
(***************************************************************************)

\* forwardRequest: maxRetries := rule.MaxRetries; if maxRetries < 1 { maxRetries = 1 }
RetryBound_NoClamp(maxRetries) == maxRetries + 1
RetryBound(maxRetries) == IF maxRetries < 1 THEN 1 ELSE maxRetries

NoTask == [pc |-> "none", endpoint_id |-> "", max_retries |-> 0,
           attempt |-> 0, maxRetries |-> 0, calls |-> 0,
           lost |-> {}, result |-> "none", target_url |-> "", backoff |-> DefaultBackoff,
           sleeps |-> <<>>, headers |-> NilData, body |-> NilData,
           forwardHeaders |-> [chain |-> NilData, rule |-> {}], rule_headers |-> {},
           forwardBody |-> [form |-> "original", data |-> NilData, bytes |-> <<>>]]

\* go forwardRequest(ctx, requestID, rule, ...): the goroutine holds its own
\* copy of the rule
NewTask(rule) == [NoTask EXCEPT !.pc = "start", !.endpoint_id = rule.endpoint_id,
                                !.max_retries = rule.max_retries,
                                !.rule_headers = rule.headers,
                                !.target_url = rule.target_url,
                                !.backoff = rule.backoff_config]

\* rule.EndpointID and rule.MaxRetries as forwardRequest reads them: from its
\* parameter, not from the table
TaskRule_Live(t, k) == forwarding_rules[k]
TaskRule(t, k) == [endpoint_id |-> t.endpoint_id, max_retries |-> t.max_retries]

\* no row of forwarding_rules has this id
NoRule == [endpoint_id |-> "", enabled |-> FALSE, max_retries |-> 0,
           condition_type |-> NULL,
           condition_config |-> [keys |-> {}, header |-> "", value |-> <<>>, pattern |-> <<>>],
           target_url |-> "", headers |-> {}, backoff_config |-> DefaultBackoff]

\* INSERT INTO forward_attempts: forwarding_rule_id REFERENCES
\* forwarding_rules(id), so the insert fails when the rule is gone
InsertOutcomes(k) == IF forwarding_rules[k] = NoRule THEN {FALSE} ELSE BOOLEAN

\* triggerForwarding: ctx := context.Background().  The rule query, the
\* transformations and the outbound calls of the capture's forwarding work
\* on this context, which is never done, whereas the context of the inbound
\* request is done once its handler has answered.
ForwardContextDone_Inbound(r) == caps[r].pc = "done"
ForwardContextDone(r) == FALSE

\* the outcomes of a query on a context: it fails when the context is done
CtxOutcomes(done) == IF done THEN {FALSE} ELSE BOOLEAN

\* triggerForwarding: one forwardRequest goroutine per enabled rule whose
\* condition matches; nothing when the rule query fails.
TriggerForwarding(r) ==
    /\ r \in pendingTrigger
    /\ pendingTrigger' = pendingTrigger \ {r}
    /\ \E dbOk \in CtxOutcomes(ForwardContextDone(r)) :
        LET req == caps[r]
        IN  tasks' = [p \in DOMAIN tasks |->
                        IF dbOk /\ p[1] = r /\ RuleFires(forwarding_rules[p[2]], req)
                        THEN NewTask(forwarding_rules[p[2]])
                        ELSE tasks[p]]
    /\ UNCHANGED <<busVars, limiterVars, tableVars, requests, forward_attempts, caps, sseVars>>

\* forwardRequest up to its retry loop: the transformations of headers and
\* body, and the retry bound
StartForward(r, k) ==
    LET t == tasks[<<r, k>>] IN
    /\ t.pc = "start"
    /\ \E dbOkH \in CtxOutcomes(ForwardContextDone(r)),
          dbOkB \in CtxOutcomes(ForwardContextDone(r)) :
        LET fwd == RequestTransformations(transformations, TaskRule(t, k).endpoint_id,
                                          HeadersData, BodyData(caps[r].body), dbOkH, dbOkB)
        IN  tasks' = [tasks EXCEPT ![<<r, k>>] =
                        [t EXCEPT !.pc = "exec", !.attempt = 1,
                                  !.maxRetries = RetryBound(TaskRule(t, k).max_retries),
                                  !.headers = fwd.headers, !.body = fwd.body,
                                  !.forwardHeaders = ForwardHeaders(fwd.headers, t.rule_headers),
                                  !.forwardBody = ForwardBody(fwd.body, caps[r].body)]]
    /\ UNCHANGED <<busVars, limiterVars, tableVars, requests, forward_attempts, caps,
                   pendingTrigger, sseVars>>

\* the fields a PUT /api/v1/forwarding-rules/{id} may carry; a field that
\* is absent keeps its value
EditedBackoff == [type |-> "linear", base |-> 3, min_ms |-> 3 * PerMs, max_ms |-> 50 * PerMs]
RuleEdits(old) ==
    {[old EXCEPT !.enabled = en, !.max_retries = m, !.target_url = url,
                 !.backoff_config = cfg] :
        en \in BOOLEAN, m \in {old.max_retries, 0, MaxRetriesRule},
        url \in {old.target_url, "down"}, cfg \in {old.backoff_config, EditedBackoff}}

\* UpdateForwardingRule: UPDATE forwarding_rules SET ... WHERE id = $n
UpdateForwardingRule(k) ==
    /\ \E dbOk \in BOOLEAN, new \in RuleEdits(forwarding_rules[k]) :
          forwarding_rules' =
              IF dbOk /\ forwarding_rules[k] # NoRule
              THEN [forwarding_rules EXCEPT ![k] = new]
              ELSE forwarding_rules
    /\ UNCHANGED <<busVars, limiterVars, endpoint_settings, transformations,
                   retention_policies, replayVars, requests, forwardVars, caps, sseVars>>

\* DeleteForwardingRule: DELETE FROM forwarding_rules WHERE id = $1; the
\* rows of forward_attempts of the rule go with it (ON DELETE CASCADE)
DeleteForwardingRule(k) ==
    /\ \E dbOk \in BOOLEAN :
          IF dbOk
          THEN /\ forwarding_rules' = [forwarding_rules EXCEPT ![k] = NoRule]
               /\ forward_attempts' = [p \in DOMAIN forward_attempts |->
                                         IF p[2] = k THEN <<>> ELSE forward_attempts[p]]
          ELSE UNCHANGED <<forwarding_rules, forward_attempts>>
    /\ UNCHANGED <<busVars, limiterVars, endpoint_settings, transformations,
                   retention_policies, replayVars, requests, pendingTrigger, tasks,
                   caps, sseVars>>

\* outcomes of one outbound call: http.NewRequestWithContext fails, client.Do
\* fails (transport error or the 30 s timeout), or a response arrives
CallOutcomes == {"request_error", "transport_error", "response"}
ResponseCodes == {200, 399, 400, 500}

\* what the target behind a rule's target_url does with the n-th call: the
\* target "flaky" answers 500, 500 and then 200; "edge" answers 400 and then
\* 399; "down" refuses every connection; "badurl" is a URL that
\* http.NewRequestWithContext rejects; any other target does anything
TargetAnswers(target_url, n) ==
    IF target_url = "flaky"
    THEN {<<"response", IF n <= 2 THEN 500 ELSE 200>>}
    ELSE IF target_url = "edge"
    THEN {<<"response", IF n <= 1 THEN 400 ELSE 399>>}
    ELSE IF target_url = "down" THEN {<<"transport_error", 0>>}
    ELSE IF target_url = "badurl" THEN {<<"request_error", 0>>}
    ELSE {<<outcome, 0>> : outcome \in CallOutcomes \ {"response"}}
         \cup {<<"response", code>> : code \in ResponseCodes}

\* the calls a context allows: a call on a context that is done fails in
\* client.Do
CtxAnswers(done, answers) ==
    IF done THEN {a \in answers : a[1] = "request_error"} \cup {<<"transport_error", 0>>}
    ELSE answers

\* executeForward: status := "success"; if resp.StatusCode >= 400 { status = "failed" }
AttemptStatus_Above(outcome, code) ==
    IF outcome = "response" /\ code <= 400 THEN "success" ELSE "failed"
AttemptStatus(outcome, code) ==
    IF outcome = "response" /\ code < 400 THEN "success" ELSE "failed"

\* executeForward: return status == "success", after recordForwardAttempt,
\* which returns nothing
Succeeded_Recorded(status, insertOk) == status = "success" /\ insertOk
Succeeded(status, insertOk) == status = "success"

\* forwardRequest: if success { return }
StopsOn_Never(success) == FALSE
StopsOn(success) == success

\* forwardRequest: if attempt < maxRetries { delay := ...; time.Sleep(delay) }
HasNextAttempt_OffByOne(attempt, maxRetries) == attempt <= maxRetries
HasNextAttempt(attempt, maxRetries) == attempt < maxRetries

\* forwardRequest: the loop condition attempt <= maxRetries
LoopContinues_OffByOne(attempt, maxRetries) == attempt <= maxRetries + 1
LoopContinues(attempt, maxRetries) == attempt <= maxRetries

\* attempt++ and the loop condition
NextIteration(t) ==
    IF LoopContinues(t.attempt + 1, t.maxRetries)
    THEN [t EXCEPT !.pc = "exec", !.attempt = @ + 1]
    ELSE [t EXCEPT !.pc = "done", !.attempt = @ + 1]

\* One iteration of the retry loop up to the sleep: executeForward with its
\* recordForwardAttempt (whose insert may fail; the error is only printed),
\* then the loop's decision.
ExecuteForward(r, k) ==
    LET t == tasks[<<r, k>>] IN
    /\ t.pc = "exec"
    /\ \E answer \in CtxAnswers(ForwardContextDone(r),
                                TargetAnswers(t.target_url, t.attempt)),
          insertOk \in InsertOutcomes(k) :
        LET status == AttemptStatus(answer[1], answer[2])
            row == [request_id |-> r, forwarding_rule_id |-> k,
                    attempt_number |-> t.attempt, status |-> status]
            success == Succeeded(status, insertOk)
            t1 == [t EXCEPT !.calls = @ + 1, !.result = status,
                            !.lost = IF insertOk THEN @ ELSE @ \cup {t.attempt}]
        IN  /\ forward_attempts' =
                  IF insertOk
                  THEN [forward_attempts EXCEPT ![<<r, k>>] = Append(@, row)]
                  ELSE forward_attempts
            /\ tasks' = [tasks EXCEPT ![<<r, k>>] =
                  IF StopsOn(success)
                  THEN [t1 EXCEPT !.pc = "done"]
                  ELSE IF HasNextAttempt(t.attempt, t.maxRetries)
                  THEN [t1 EXCEPT !.pc = "sleep"]
                  ELSE NextIteration(t1)]
    /\ UNCHANGED <<busVars, limiterVars, tableVars, requests, caps, pendingTrigger, sseVars>>

\* delay := calculateBackoff(attempt, rule.BackoffConfig); time.Sleep(delay)
\* returns, and the loop goes on with attempt++
BackoffSleep(r, k) ==
    LET t == tasks[<<r, k>>] IN
    /\ t.pc = "sleep"
    /\ tasks' = [tasks EXCEPT ![<<r, k>>] =
          NextIteration([t EXCEPT !.sleeps = Append(@, calculateBackoff(t.attempt, t.backoff))])]
    /\ UNCHANGED <<busVars, limiterVars, tableVars, requests, forward_attempts, caps,
                   pendingTrigger, sseVars>>


(***************************************************************************)
(* Strings, bodies and headers                                             *)
(***************************************************************************)

\* A signature header value is a sequence of tokens; the empty sequence is "".
Tok(kind, name, key, msg) == [kind |-> kind, name |-> name, key |-> key, msg |-> msg]
\* the text  algorithm + "="
Prefix(alg) == Tok("prefix", alg, "", <<>>)
\* hex.EncodeToString(mac.Sum(nil)) for hmac.New(alg, secret) over body
HmacHex(alg, secret, body) == Tok("hex", alg, secret, body)
Text(s) == Tok("text", s, "", <<>>)

\* strings.TrimPrefix
TrimPrefix(s, p) == IF Len(s) > 0 /\ Head(s) = p THEN Tail(s) ELSE s

SigHeaders == <<"X-Signature", "X-Hub-Signature-256", "X-Stripe-Signature", "Signature">>
HeaderNames == Range(SigHeaders) \cup {"X-Event"}
NoHeaders == [h \in HeaderNames |-> <<>>]

BodyOfLen(n) == [i \in 1..n |-> 97]
\* request bodies sent to the capture URL; byte 255 never occurs in UTF-8
Bodies == {<<>>, BodyOfLen(MaxBodySize), BodyOfLen(MaxBodySize + 1),
           BodyOfLen(MaxBodySize + 2), <<255>>}

\* utf8.Valid, for bodies over the bytes 0..127 and 255
Utf8Valid(b) == \A i \in DOMAIN b : b[i] < 128

\* base64.StdEncoding.EncodeToString: the ASCII code of sextet v
B64Char(v) ==
    IF v < 26 THEN 65 + v
    ELSE IF v < 52 THEN 97 + (v - 26)
    ELSE IF v < 62 THEN 48 + (v - 52)
    ELSE IF v = 62 THEN 43 ELSE 47
B64Pad == 61

RECURSIVE Base64(_)
Base64(b) ==
    IF Len(b) = 0 THEN <<>>
    ELSE IF Len(b) = 1 THEN
        <<B64Char(b[1] \div 4), B64Char((b[1] % 4) * 16), B64Pad, B64Pad>>
    ELSE IF Len(b) = 2 THEN
        <<B64Char(b[1] \div 4), B64Char((b[1] % 4) * 16 + b[2] \div 16),
          B64Char((b[2] % 16) * 4), B64Pad>>
    ELSE <<B64Char(b[1] \div 4), B64Char((b[1] % 4) * 16 + b[2] \div 16),
           B64Char((b[2] % 16) * 4 + b[3] \div 64), B64Char(b[3] % 64)>>
         \o Base64(SubSeq(b, 4, Len(b)))

\* executeForward: the text "[BINARY DATA - Base64 Encoded]\n" that precedes
\* the base64 text of a binary response body
BinaryMarker ==
    <<91, 66, 73, 78, 65, 82, 89, 32, 68, 65, 84, 65, 32, 45,
      32, 66, 97, 115, 101, 54, 52, 32, 69, 110, 99, 111, 100, 101, 100, 93, 10>>

\* CaptureHandler: the value of the body column (bodyStr)
StoredBody(body) ==
    IF Len(body) = 0 THEN [null |-> TRUE, text |-> <<>>]
    ELSE IF Utf8Valid(body) THEN [null |-> FALSE, text |-> body]
    ELSE [null |-> FALSE, text |-> Base64(body)]

(***************************************************************************)
(* Tables                                                                  *)
(***************************************************************************)

\* table endpoints
endpoints == [e1 |-> [slug |-> "fh_abc12345"]]
EndpointBySlug(slug) == {e \in Endpoints : endpoints[e].slug = slug}
\* endpointID.String(), the key of the limiter and of the published events
EndpointKey_Shared(e) == "e1"
EndpointKey(e) == e

\* a nullable integer column: {} is NULL, {n} is n
IsNull(x) == x = {}
Val(x) == CHOOSE v \in x : TRUE

NoSettings == [exists |-> FALSE, hmac_secret |-> NULL, hmac_algorithm |-> NULL,
               rate_limit_per_minute |-> {}, rate_limit_per_hour |-> {},
               rate_limit_per_day |-> {}]

(***************************************************************************)
(* Rate limiter                                                            *)
(***************************************************************************)

CountAfter(seq, cutoff) == Cardinality({i \in DOMAIN seq : seq[i] > cutoff})

\* "Clean old entries": keep the timestamps t with t.After(now - 1h)
CleanOld(seq, now) == SelectSeq(seq, LAMBDA t : t > now - Hour)

\* count >= *limit
Reached_Off(count, limit) == count > limit
Reached(count, limit) == count >= limit

\* the three "Check limits" blocks, over the cleaned sequence
LimitExceeded(seq, now, st) ==
    \/ /\ ~IsNull(st.rate_limit_per_minute)
       /\ Reached(CountAfter(seq, now - Minute), Val(st.rate_limit_per_minute))
    \/ /\ ~IsNull(st.rate_limit_per_hour)
       /\ Reached(CountAfter(seq, now - Hour), Val(st.rate_limit_per_hour))
    \/ /\ ~IsNull(st.rate_limit_per_day)
       /\ Reached(CountAfter(seq, now - Day), Val(st.rate_limit_per_day))

(***************************************************************************)
(* Signature verifier                                                      *)
(***************************************************************************)

\* the last non-empty value among the signature headers
FirstSignature_Last(headers, i) ==
    LET given == {j \in i..Len(SigHeaders) : HeaderGet(headers, SigHeaders[j]) # <<>>}
    IN  IF given = {} THEN <<>>
        ELSE HeaderGet(headers, SigHeaders[CHOOSE j \in given : \A m \in given : m <= j])

\* the first non-empty value among the signature headers, in their order
RECURSIVE FirstSignature(_, _)
FirstSignature(headers, i) ==
    IF i > Len(SigHeaders) THEN <<>>
    ELSE IF HeaderGet(headers, SigHeaders[i]) # <<>>
         THEN HeaderGet(headers, SigHeaders[i])
         ELSE FirstSignature(headers, i + 1)

\* switch algorithm { case "sha1" ... case "sha512" ... default: sha256 }
HashOf(algorithm) ==
    IF algorithm \in {"sha1", "sha512"} THEN algorithm ELSE "sha256"

StripPrefixes(signature, algorithm) ==
    TrimPrefix(TrimPrefix(TrimPrefix(TrimPrefix(signature, Prefix(algorithm)),
        Prefix("sha256")), Prefix("sha1")), Prefix("sha512"))

\* hmac.Equal(signature, expectedSignature)
SignatureEqual(signature, expected) == signature = expected

\* VerifySignature(endpointID, r, body): (verified, err != nil).  st is the
\* settings row of the endpoint, dbOk whether the query itself succeeded.
VerifySignature(st, headers, body, dbOk) ==
    IF ~dbOk THEN [verified |-> FALSE, err |-> TRUE]
    ELSE IF ~st.exists THEN [verified |-> TRUE, err |-> FALSE]
    \* Scan(&secret, &algorithm) with algorithm a string: NULL does not scan
    ELSE IF st.hmac_algorithm = NULL THEN [verified |-> FALSE, err |-> TRUE]
    ELSE IF st.hmac_secret = NULL \/ st.hmac_secret = ""
         THEN [verified |-> TRUE, err |-> FALSE]
    ELSE LET signature == FirstSignature(headers, 1) IN
         IF signature = <<>> THEN [verified |-> FALSE, err |-> TRUE]
         ELSE [verified |-> SignatureEqual(
                   StripPrefixes(signature, st.hmac_algorithm),
                   <<HmacHex(HashOf(st.hmac_algorithm), st.hmac_secret, body)>>),
               err |-> FALSE]

(***************************************************************************)
(* Capture handler                                                         *)
(***************************************************************************)

NoCap == [pc |-> "idle", endpoint_id |-> "", body |-> <<>>, headers |-> NoHeaders,
          now |-> 0, order |-> 0, status |-> 0, dbErr |-> FALSE, log |-> <<>>]

\* http.Error(w, ..., status); return
Answer_NoReturn(cap, status) == [cap EXCEPT !.pc = "insert", !.status = status]
Answer(cap, status) == [cap EXCEPT !.pc = "done", !.status = status]

SlugInputs == {"", "fh_abc12345", "fh_unknown"}

\* if int64(len(body)) > maxBodySize
TooLarge_Off(n, maxBodySize) == n >= maxBodySize
TooLarge(n, maxBodySize) == n > maxBodySize

\* header sets a sender may present for a body on an endpoint: none; the
\* HMAC of the body with a "sha256=" prefix; and, with a non-empty body, the
\* HMAC of another body, or the bare HMAC in a later signature header
\* together with an event header
HeaderInputs(e, body) ==
    LET st == endpoint_settings[e]
        good == HmacHex(HashOf(st.hmac_algorithm), st.hmac_secret, body)
        other == HmacHex(HashOf(st.hmac_algorithm), st.hmac_secret, <<0>>)
    IN  { NoHeaders,
          [NoHeaders EXCEPT !["X-Signature"] = << <<Prefix("sha256"), good>> >>] }
        \cup
        IF body = <<>> THEN {}
        ELSE { [NoHeaders EXCEPT !["X-Signature"] = << <<other>> >>],
               [NoHeaders EXCEPT !["X-Hub-Signature-256"] = << <<good>> >>,
                                 !["X-Event"] = << <<Text("push")>> >>] }

\* CaptureHandler up to the call of CheckRateLimit: slug, endpoint lookup,
\* body read through io.LimitReader(r.Body, maxBodySize+1), size check
CaptureStart(c) ==
    /\ caps[c].pc = "idle"
    /\ \E slug \in SlugInputs, sent \in Bodies, dbOk \in BOOLEAN, readOk \in BOOLEAN :
        LET found == EndpointBySlug(slug)
            body == SubSeq(sent, 1, IF Len(sent) > MaxBodySize + 1
                                    THEN MaxBodySize + 1 ELSE Len(sent))
        IN  IF slug = "" THEN
                caps' = [caps EXCEPT ![c] = Answer(@, StatusBadRequest)]
            ELSE IF ~dbOk THEN
                caps' = [caps EXCEPT ![c] =
                            Answer([@ EXCEPT !.dbErr = TRUE], StatusInternalServerError)]
            ELSE IF found = {} THEN
                caps' = [caps EXCEPT ![c] = Answer(@, StatusNotFound)]
            ELSE IF ~readOk THEN
                caps' = [caps EXCEPT ![c] = Answer(@, StatusInternalServerError)]
            ELSE IF TooLarge(Len(body), MaxBodySize) THEN
                caps' = [caps EXCEPT ![c] =
                            Answer([@ EXCEPT !.body = body], StatusRequestEntityTooLarge)]
            ELSE \E e \in found : \E headers \in HeaderInputs(e, body) :
                caps' = [caps EXCEPT ![c] =
                            [@ EXCEPT !.pc = "rl_read", !.endpoint_id = e,
                                      !.body = body, !.headers = headers]]
    /\ UNCHANGED <<busVars, limiterVars, tableVars, requests, forwardVars, sseVars>>

\* CheckRateLimit up to the lock: the settings query (any error, no row
\* included, returns true), then now := time.Now()
RLRead(c) ==
    /\ caps[c].pc = "rl_read"
    /\ \E dbOk \in BOOLEAN :
        LET st == endpoint_settings[caps[c].endpoint_id] IN
        IF ~dbOk \/ ~st.exists
        THEN caps' = [caps EXCEPT ![c] = [@ EXCEPT !.pc = "verify",
                                                   !.dbErr = @ \/ ~dbOk]]
        ELSE caps' = [caps EXCEPT ![c] = [@ EXCEPT !.pc = "rl_lock", !.now = clock]]
    /\ UNCHANGED <<busVars, limiterVars, tableVars, requests, forwardVars, sseVars>>

\* "Record this request": requests[key] = append(requests[key], now)
Record_Later(seq, now) == seq
Record(seq, now) == Append(seq, now)

\* CheckRateLimit under globalRateLimiter.mu: clean, check, record; and the
\* handler's answer 429 when it returns an error
RLCheck(c) ==
    /\ caps[c].pc = "rl_lock"
    /\ LET e == caps[c].endpoint_id
           key == EndpointKey(e)
           now == caps[c].now
           st == endpoint_settings[e]
           cleaned == CleanOld(limiter[key], now)
       IN  /\ lockSeq' = lockSeq + 1
           /\ IF LimitExceeded(cleaned, now, st)
              THEN /\ limiter' = [limiter EXCEPT ![key] = cleaned]
                   /\ admitted' = admitted
                   /\ caps' = [caps EXCEPT ![c] =
                         Answer([@ EXCEPT !.order = lockSeq + 1], StatusTooManyRequests)]
              ELSE /\ limiter' = [limiter EXCEPT ![key] = Record(cleaned, now)]
                   /\ admitted' = [admitted EXCEPT ![key] = Append(@, now)]
                   /\ caps' = [caps EXCEPT ![c] =
                         [@ EXCEPT !.pc = "verify", !.order = lockSeq + 1]]
    /\ UNCHANGED <<busVars, clock, tableVars, requests, forwardVars, sseVars>>

\* the handler's call of VerifySignature and its two error answers
Verify(c) ==
    /\ caps[c].pc = "verify"
    /\ \E dbOk \in BOOLEAN :
        LET res == VerifySignature(endpoint_settings[caps[c].endpoint_id],
                                   caps[c].headers, caps[c].body, dbOk)
        IN  caps' = [caps EXCEPT ![c] =
                IF res.err
                THEN Answer([@ EXCEPT !.dbErr = @ \/ ~dbOk], StatusInternalServerError)
                ELSE IF ~res.verified THEN Answer(@, StatusUnauthorized)
                ELSE [@ EXCEPT !.pc = "insert"]]
    /\ UNCHANGED <<busVars, limiterVars, tableVars, requests, forwardVars, sseVars>>

RequestRow(c) ==
    [id |-> c, endpoint_id |-> caps[c].endpoint_id, method |-> "POST",
     headers |-> caps[c].headers, body |-> StoredBody(caps[c].body),
     body_size |-> Len(caps[c].body), received_at |-> clock]

\* if err != nil { http.Error(w, "Failed to save request", 500); return }
InsertFailed_NoReturn(cap) == [cap EXCEPT !.pc = "publish", !.dbErr = TRUE]
InsertFailed(cap) == Answer([cap EXCEPT !.dbErr = TRUE], StatusInternalServerError)

\* INSERT INTO requests, and the answer 500 when it fails
Insert(c) ==
    /\ caps[c].pc = "insert"
    /\ \E dbOk \in BOOLEAN :
        IF dbOk
        THEN /\ requests' = requests \cup {RequestRow(c)}
             /\ caps' = [caps EXCEPT ![c] =
                            [@ EXCEPT !.pc = "publish", !.log = Append(@, "insert")]]
        ELSE /\ requests' = requests
             /\ caps' = [caps EXCEPT ![c] = InsertFailed(@)]
    /\ UNCHANGED <<busVars, limiterVars, tableVars, forwardVars, sseVars>>

\* select { case conn.ch <- data: default: }
SendNonBlocking_Short(ch, data) == IF Len(ch) < SSEBuffer - 1 THEN Append(ch, data) ELSE ch
SendNonBlocking(ch, data) == IF Len(ch) < SSEBuffer THEN Append(ch, data) ELSE ch

\* the send never waits: the select has a default branch
CanPublish_Blocking(key) == \A conn \in sseConnections[key] : Len(sseCh[conn]) < SSEBuffer
CanPublish(key) == TRUE

\* publishRequestEvent / broadcastToSSE(endpointID.String(), event)
Publish(c) ==
    /\ caps[c].pc = "publish"
    /\ LET key == EndpointKey(caps[c].endpoint_id) IN
        /\ CanPublish(key)
        /\ sseCh' = [conn \in DOMAIN sseCh |->
                        IF conn \in sseConnections[key]
                        THEN SendNonBlocking(sseCh[conn], c)
                        ELSE sseCh[conn]]
    /\ caps' = [caps EXCEPT ![c] = [@ EXCEPT !.pc = "spawn", !.log = Append(@, "publish")]]
    /\ UNCHANGED <<busVars, limiterVars, tableVars, requests, forwardVars, sseConnections>>

\* go triggerForwarding(...); w.WriteHeader(http.StatusOK); w.Write("OK")
SpawnAndRespond(c) ==
    /\ caps[c].pc = "spawn"
    /\ pendingTrigger' = pendingTrigger \cup {c}
    /\ caps' = [caps EXCEPT ![c] = Answer([@ EXCEPT !.log = @ \o <<"schedule", "respond">>], StatusOK)]
    /\ UNCHANGED <<busVars, limiterVars, tableVars, requests, forward_attempts, tasks, sseVars>>

\* time passes: the clock moves on to a later one of these instants
Instants == {0, Minute - 1, Minute, Hour}
Tick ==
    /\ \E t \in Instants : t > clock /\ clock' = t
    /\ UNCHANGED <<busVars, limiter, admitted, lockSeq, tableVars, requests, forwardVars,
                   caps, sseVars>>

\* the caller of CheckRateLimit calls it again for a new request
CallAgain(c) ==
    /\ caps[c].pc \in {"verify", "done"}
    /\ lockSeq < MaxCalls
    /\ caps' = [caps EXCEPT ![c] = [NoCap EXCEPT !.pc = "rl_read",
                                                 !.endpoint_id = caps[c].endpoint_id]]
    /\ UNCHANGED <<busVars, limiterVars, tableVars, requests, forwardVars, sseVars>>

(***************************************************************************)
(* Replay                                                                  *)
(***************************************************************************)

\* one id per call of ReplayRequest: replayID := uuid.New()
ReplayIds == {"p1"}

\* models.CreateReplayRequest as decoded from the body of the call: method
\* is a *string (NULL when the field is absent), headers a map (absent, {}
\* or with entries), body a *string ({} when absent, {text} when given)
ReplayInputs ==
    {[request_id |-> in[1], target_url |-> in[2], method |-> in[3],
      headers |-> in[4], body |-> in[5]] :
        in \in {<<1, "any", NULL, "absent", {}>>,
                <<1, "any", "PUT", "absent", {}>>,
                <<1, "any", NULL, "given", {}>>,
                <<1, "any", NULL, "absent", {<<98>>}>>,
                <<1, "any", "PUT", "given", {<<98>>}>>,
                <<1, "any", "", "empty", {<<>>}>>,
                <<2, "any", NULL, "absent", {}>>,
                <<1, "", "PUT", "absent", {}>>}}

\* a replay of the request as it was captured: no override
NoInput == [request_id |-> 0, target_url |-> "", method |-> NULL, headers |-> "absent",
            body |-> {}]

\* a row of table replays: status DEFAULT 'pending', attempts DEFAULT 0,
\* response_status NULL until the attempt fills it
NoReplay == [exists |-> FALSE, request_id |-> 0, target_url |-> "", method |-> "",
             headers |-> [from |-> "original", data |-> NilData],
             body |-> [form |-> "original", data |-> NilData, of |-> <<>>],
             status |-> "pending", attempts |-> 0, response_status |-> {}]

\* a call of ReplayRequest and the executeReplay goroutine it spawns: "given"
\* is the decoded body of the call, "status" the HTTP status of the answer,
\* method, headers and body the arguments of executeReplay, "sent" the
\* outbound requests made, "answer" what came back
NoReplayTask == [pc |-> "idle", given |-> NoInput, status |-> 0, target_url |-> "",
                 method |-> "", headers |-> [from |-> "original", data |-> NilData],
                 body |-> [form |-> "original", data |-> NilData, of |-> <<>>],
                 sent |-> <<>>, answer |-> <<"none", 0>>, lost |-> FALSE]

\* originalBody = []byte(*bodyStr): the text of the body column, nothing for
\* NULL or ""
OriginalBody(row) == IF row.body.null THEN <<>> ELSE row.body.text

\* replayMethod: the override when it is given and not ""
ReplayMethod(originalReq, given) ==
    IF given.method # NULL /\ given.method # "" THEN given.method ELSE originalReq.method

\* replayHeaders: the override when it has entries, else a copy of the
\* original headers
ReplayHeaders(originalReq, given) ==
    IF given.headers = "given" THEN "override" ELSE "original"

\* replayBody: the override whenever the field is present, "" included
ReplayBody(originalReq, given) ==
    IF given.body # {} THEN (CHOOSE b \in given.body : TRUE) ELSE OriginalBody(originalReq)

\* finalBody, "Convert transformed body back to string": as forwardRequest
\* does, with replayBody where that one takes the captured body; "of" is
\* the text the value was made from
FinalBody(transformedBody, replayBody) ==
    LET b == ForwardBody(transformedBody, replayBody)
    IN  [form |-> b.form, data |-> b.data, of |-> replayBody]

\* the inbound request of a replay is over once its handler has answered;
\* executeReplay works on ctx := context.Background(), which is never done
ReplayContextDone_Inbound(i) == replayTasks[i].pc # "idle"
ReplayContextDone(i) == FALSE

\* if err != nil { http.Error(w, "Failed to create replay", 500); return }
InsertReplayFailed_NoReturn(task) == [task EXCEPT !.pc = "exec", !.status = StatusInternalServerError]
InsertReplayFailed(task) == [task EXCEPT !.pc = "answered", !.status = StatusInternalServerError]

\* ReplayRequest, the whole handler: the checks of the call, the original
\* request, the effective method, headers and body, the request
\* transformations (the originals when they fail), the INSERT of the row as
\* 'pending' and, when that succeeded, go executeReplay(...)
ReplayRequest(i) ==
    /\ replayTasks[i].pc = "idle"
    /\ \E given \in ReplayInputs, selectOk \in BOOLEAN, dbOkH \in BOOLEAN,
          dbOkB \in BOOLEAN, insertOk \in BOOLEAN :
        LET found == {row \in requests : row.id = given.request_id}
            originalReq == CHOOSE row \in found : TRUE
            replayBody == ReplayBody(originalReq, given)
            tr == RequestTransformations(transformations, originalReq.endpoint_id,
                                         HeadersData, BodyData(replayBody), dbOkH, dbOkB)
            task == [NoReplayTask EXCEPT
                        !.given = given, !.target_url = given.target_url,
                        !.method = ReplayMethod(originalReq, given),
                        !.headers = [from |-> ReplayHeaders(originalReq, given),
                                     data |-> tr.headers],
                        !.body = FinalBody(tr.body, replayBody)]
            answered(status) ==
                /\ replayTasks' = [replayTasks EXCEPT ![i] =
                        [NoReplayTask EXCEPT !.pc = "answered", !.given = given,
                                             !.status = status]]
                /\ replays' = replays
        IN  IF given.target_url = "" THEN answered(StatusBadRequest)
            ELSE IF ~selectOk THEN answered(StatusInternalServerError)
            ELSE IF found = {} THEN answered(StatusNotFound)
            ELSE IF ~insertOk
            THEN /\ replayTasks' = [replayTasks EXCEPT ![i] = InsertReplayFailed(task)]
                 /\ replays' = replays
            ELSE /\ replays' = [replays EXCEPT ![i] =
                        [NoReplay EXCEPT !.exists = TRUE, !.request_id = given.request_id,
                                         !.target_url = task.target_url,
                                         !.method = task.method, !.headers = task.headers,
                                         !.body = task.body]]
                 /\ replayTasks' = [replayTasks EXCEPT ![i] =
                        [task EXCEPT !.pc = "exec", !.status = StatusOK]]
    /\ UNCHANGED <<busVars, limiterVars, ruleTables, requests, forwardVars, caps, sseVars>>

\* what the target of a replay does with the call, as for a forwarding
\* target, and besides: the response arrives and reading its body fails
ReplayAnswers(target_url) ==
    TargetAnswers(target_url, 1) \cup {<<"read_error", code>> : code \in {200, 500}}

\* executeReplay: "failed" when the request cannot be built or sent or its
\* response not read; else status := "success"; if resp.StatusCode >= 400
\* { status = "failed" }
ReplayStatus(outcome, code) ==
    IF outcome = "response" /\ code < 400 THEN "success" ELSE "failed"

\* updateReplayStatus: SET status = $1, attempts = attempts + 1,
\* response_status = $2 WHERE id = $6
updateReplayStatus(row, status, responseStatus) ==
    [row EXCEPT !.status = status, !.attempts = @ + 1,
                !.response_status = {responseStatus}]

\* executeReplay: one outbound call and one updateReplayStatus, whose own
\* failure is only printed
ExecuteReplay(i) ==
    LET t == replayTasks[i] IN
    /\ t.pc = "exec"
    /\ \E answer \in CtxAnswers(ReplayContextDone(i), ReplayAnswers(t.target_url)),
          updateOk \in BOOLEAN :
        LET status == ReplayStatus(answer[1], answer[2])
            request == [method |-> t.method, headers |-> t.headers, body |-> t.body]
        IN  /\ replays' = IF updateOk /\ replays[i].exists
                          THEN [replays EXCEPT ![i] =
                                    updateReplayStatus(@, status, answer[2])]
                          ELSE replays
            /\ replayTasks' = [replayTasks EXCEPT ![i] =
                    [t EXCEPT !.pc = "done", !.answer = answer, !.lost = ~updateOk,
                              !.sent = IF answer[1] = "request_error" THEN @
                                       ELSE Append(@, request)]]
    /\ UNCHANGED <<busVars, limiterVars, ruleTables, requests, forwardVars, caps, sseVars>>

ReplayStep == \E i \in ReplayIds : ReplayRequest(i) \/ ExecuteReplay(i)

(***************************************************************************)
(* Retention                                                               *)
(***************************************************************************)

\* a row of table retention_policies: retention_days DEFAULT 30, auto_delete
\* DEFAULT FALSE, archive_enabled DEFAULT FALSE
DefaultRetentionDays == 30
NoPolicy == [exists |-> FALSE, retention_days |-> DefaultRetentionDays,
             auto_delete |-> FALSE, archive_enabled |-> FALSE]

\* a retention of some 292 years, in days
LongRetention == 106752

\* models.CreateRetentionPolicyRequest: retention_days, auto_delete and
\* archive_enabled are pointers, {} when the field is absent
RetentionInputs ==
    [retention_days : {{}, {0}, {1}, {LongRetention}}, auto_delete : {{}, {TRUE}, {FALSE}},
     archive_enabled : {{}, {TRUE}}]

\* UpdateRetentionPolicy: the endpoint by its slug, the defaults for absent
\* fields, the upsert; no value is refused
UpdateRetentionPolicy(e) ==
    /\ \E req \in RetentionInputs, selectOk \in BOOLEAN, upsertOk \in BOOLEAN :
        LET retentionDays == IF req.retention_days # {}
                             THEN CHOOSE d \in req.retention_days : TRUE
                             ELSE DefaultRetentionDays
            autoDelete == IF req.auto_delete # {}
                          THEN CHOOSE a \in req.auto_delete : TRUE
                          ELSE FALSE
            archiveEnabled == IF req.archive_enabled # {}
                              THEN CHOOSE a \in req.archive_enabled : TRUE
                              ELSE FALSE
        IN  retention_policies' =
                IF selectOk /\ upsertOk
                THEN [retention_policies EXCEPT ![e] =
                        [exists |-> TRUE, retention_days |-> retentionDays,
                         auto_delete |-> autoDelete, archive_enabled |-> archiveEnabled]]
                ELSE retention_policies
    /\ UNCHANGED <<busVars, limiterVars, endpoint_settings, forwarding_rules, transformations,
                   replayVars, requests, forwardVars, caps, sseVars>>

\* received_at precedes now minus retention_days (a day is 24 hours)
Overdue(received_at, now, retentionDays) ==
    LET age == now - received_at
        day == 24 * Hour
    IN  \/ age \div day > retentionDays
        \/ age \div day = retentionDays /\ age % day > 0

\* time.Duration is an int64 of nanoseconds.  The model keeps the numbers
\* that do not fit its integers as pairs hi * 2^24 + lo with 0 <= lo < 2^24.
Limb == 16777216
HalfLimb == 4096
Pair(hi, lo) == [hi |-> hi + (lo \div Limb), lo |-> lo % Limb]
Greater(a, b) == a.hi > b.hi \/ (a.hi = b.hi /\ a.lo > b.lo)

\* 24 * time.Hour is 2^16 * DayUnits nanoseconds, and 10^9 is 2^9 * SecondUnits
DayUnits == 1318359375
SecondUnits == 1953125

\* n * c for 0 <= c < 2^31 and n of up to 24 bits, as a pair
Times(n, c) ==
    LET nh == n \div HalfLimb
        nl == n % HalfLimb
        ch == c \div HalfLimb
        cl == c % HalfLimb
        mid == nh * cl + nl * ch
    IN  Pair(nh * ch + (mid \div HalfLimb), (mid % HalfLimb) * HalfLimb + nl * cl)

\* time.Duration(retentionDays) * 24 * time.Hour, in units of 2^16 ns: the
\* product wraps around at 64 bits, which is 48 bits of these units
Wrap48(p) ==
    LET hi == p.hi % Limb
    IN  [hi |-> IF hi >= Limb \div 2 THEN hi - Limb ELSE hi, lo |-> p.lo]
RetentionDuration(retentionDays) == Wrap48(Times(retentionDays, DayUnits))

\* received_at < cutoffDate, for cutoffDate := time.Now().Add(-time.Duration(
\* retentionDays) * 24 * time.Hour): the age of the row exceeds the duration.
\* Both sides are in units of 2^9 ns; received_at and now are in seconds.
BeforeCutoff(received_at, now, retentionDays) ==
    LET d == RetentionDuration(retentionDays)
    IN  Greater(Times(now - received_at, SecondUnits), Pair(d.hi * 128, d.lo * 128))

\* the loop over the policies, taken in the order e1, e2: when the DELETE
\* of a policy fails the error is logged and the loop goes on to the next
SweepGoesOn(e, deleteOk) == TRUE

\* CleanupOldRequests(ctx): for every policy with auto_delete = true, DELETE
\* FROM requests WHERE endpoint_id = $1 AND received_at < $2; a delete that
\* fails is logged and the loop goes on.  The rows of replays and of
\* forward_attempts go with their request (ON DELETE CASCADE).
CleanupOldRequests ==
    /\ \E queryOk \in BOOLEAN, deleteOk \in [PolicyEndpoints -> BOOLEAN] :
        LET swept(row) ==
                LET policy == retention_policies[row.endpoint_id]
                IN  /\ queryOk /\ policy.exists /\ policy.auto_delete
                    /\ SweepGoesOn(row.endpoint_id, deleteOk)
                    /\ deleteOk[row.endpoint_id]
                    /\ BeforeCutoff(row.received_at, clock, policy.retention_days)
            gone == {row.id : row \in {x \in requests : swept(x)}}
        IN  /\ requests' = {row \in requests : ~swept(row)}
            /\ replays' = [i \in ReplayIds |->
                              IF replays[i].exists /\ replays[i].request_id \in gone
                              THEN NoReplay ELSE replays[i]]
            /\ forward_attempts' = [p \in DOMAIN forward_attempts |->
                              IF p[1] \in gone THEN <<>> ELSE forward_attempts[p]]
    /\ UNCHANGED <<busVars, limiterVars, ruleTables, replayTasks, pendingTrigger, tasks, caps, sseVars>>

\* main: the goroutines the server starts besides the handlers of its
\* routes.  The only one is the HTTP server itself; nothing calls
\* CleanupOldRequests and nothing reads config.CleanupInterval.
Background == {"ListenAndServe"}
Sweeper ==
    /\ "CleanupOldRequests" \in Background
    /\ CleanupOldRequests

(***************************************************************************)
(* Initial states                                                          *)
(***************************************************************************)

\* rows that UpdateEndpointSettings can leave in endpoint_settings: every
\* column of the upsert is nullable and taken from the request as given
Secrets == {NULL, "", "s3cr"}
Algorithms == {NULL, "sha1", "sha256", "sha512"}
Limits == {{}} \cup {{n} : n \in 0..MaxLimit}
SettingsRows ==
    [exists : {TRUE}, hmac_secret : Secrets, hmac_algorithm : Algorithms,
     rate_limit_per_minute : Limits, rate_limit_per_hour : Limits,
     rate_limit_per_day : Limits]

\* condition_type and condition_config as CreateForwardingRule stores them
NoConfig == [keys |-> {}, header |-> "", value |-> <<>>, pattern |-> <<>>]
HeaderConfig == [keys |-> {"header", "value"}, header |-> "X-Event",
                 value |-> <<Text("push")>>, pattern |-> <<>>]
BodyConfig == [keys |-> {"pattern"}, header |-> "", value |-> <<>>,
               pattern |-> <<97>>]
Conditions == {<<NULL, NoConfig>>, <<"header_match", HeaderConfig>>,
               <<"body_match", BodyConfig>>}

\* rows that CreateForwardingRule / UpdateForwardingRule can leave in
\* forwarding_rules: max_retries is stored as given, zero included;
\* "headers" are the names of the rule's static headers
RuleRows ==
    {[endpoint_id |-> e, enabled |-> en, max_retries |-> m,
      condition_type |-> cond[1], condition_config |-> cond[2],
      target_url |-> "any", headers |-> {}, backoff_config |-> DefaultBackoff] :
        e \in Endpoints, en \in BOOLEAN, m \in 0..MaxRetriesRule, cond \in Conditions}

ConnIds == {"s1", "s2", "s3"}
SSEKeys == {EndpointKey(e) : e \in Endpoints} \cup {endpoints[e].slug : e \in Endpoints}

(***************************************************************************)
(* Event bus                                                               *)
(***************************************************************************)

\* one id per call of broadcastToSSE
PubIds == {"b1", "b2"}

\* a RealtimeHandler goroutine: "none" before it registered, "listening" in
\* its loop, "leaving" between the steps of the case <-done, "gone" after
\* its return; "did" are the steps of the case <-done it has made
NoSub == [pc |-> "none", key |-> "", did |-> <<>>]

\* a broadcastToSSE call: "connections" is its local of that name, "nil"
\* or a reference to the map of its key; "stale" tells that this map has been
\* taken out of sseMgr.connections since; "todo" is what the range loop has
\* still to visit
NoPub == [pc |-> "idle", key |-> "", connections |-> "nil", stale |-> FALSE,
          todo |-> {}]

\* sseMgr.mu.Lock() returns when nobody holds the mutex; the sections under
\* the write lock do not block and are taken as one step each
CanLock == sseReaders = {}

\* RealtimeHandler up to its loop: the connection is registered under the
\* write lock, in a new map when the key has none
Subscribe(conn, key) ==
    /\ subs[conn].pc = "none"
    /\ CanLock
    /\ sseKeys' = sseKeys \cup {key}
    /\ sseConnections' = [sseConnections EXCEPT ![key] = @ \cup {conn}]
    /\ subs' = [subs EXCEPT ![conn] = [NoSub EXCEPT !.pc = "listening", !.key = key]]
    /\ UNCHANGED <<limiterVars, tableVars, requests, forwardVars, caps, sseCh,
                   sseReaders, sseClosed, ssePanic, pubs>>

\* case data := <-conn.ch: the event is written to the client
Receive(conn) ==
    /\ subs[conn].pc = "listening"
    /\ Len(sseCh[conn]) > 0
    /\ sseCh' = [sseCh EXCEPT ![conn] = Tail(@)]
    /\ UNCHANGED <<limiterVars, tableVars, requests, forwardVars, caps, sseConnections,
                   busVars>>

\* case <-done: the steps in the order the handler makes them
DisconnectSteps_CloseFirst == <<"close", "remove">>
DisconnectSteps == <<"remove", "close">>

NextDisconnectStep(sub) ==
    IF sub.pc \in {"listening", "leaving"} /\ Len(sub.did) < Len(DisconnectSteps)
    THEN DisconnectSteps[Len(sub.did) + 1] ELSE "none"
AfterStep(sub, step) ==
    [sub EXCEPT !.did = Append(@, step),
                !.pc = IF Len(sub.did) + 1 = Len(DisconnectSteps) THEN "gone" ELSE "leaving"]

\* if len(sseMgr.connections[endpointKey]) == 0 { delete(sseMgr.connections, endpointKey) }
DropsKey(left) == left = {}

\* delete(sseMgr.connections[endpointKey], conn) and, when that leaves the
\* map empty, delete(sseMgr.connections, endpointKey), under the write lock;
\* a call that holds the map taken out is marked
Unregister(conn) ==
    LET sub == subs[conn]
        left == sseConnections[sub.key] \ {conn}
    IN  /\ NextDisconnectStep(sub) = "remove"
        /\ CanLock
        /\ sseConnections' = [sseConnections EXCEPT ![sub.key] = left]
        /\ sseKeys' = IF DropsKey(left) THEN sseKeys \ {sub.key} ELSE sseKeys
        /\ pubs' = [b \in PubIds |->
                      IF DropsKey(left) /\ pubs[b].key = sub.key /\ pubs[b].connections = "map"
                      THEN [pubs[b] EXCEPT !.stale = TRUE] ELSE pubs[b]]
        /\ subs' = [subs EXCEPT ![conn] = AfterStep(sub, "remove")]
        /\ UNCHANGED <<limiterVars, tableVars, requests, forwardVars, caps, sseCh,
                       sseReaders, sseClosed, ssePanic>>

\* close(conn.ch)
CloseChannel(conn) ==
    LET sub == subs[conn] IN
    /\ NextDisconnectStep(sub) = "close"
    /\ sseClosed' = sseClosed \cup {conn}
    /\ subs' = [subs EXCEPT ![conn] = AfterStep(sub, "close")]
    /\ UNCHANGED <<limiterVars, tableVars, requests, forwardVars, caps, sseVars,
                   sseKeys, sseReaders, ssePanic, pubs>>

\* the entries of the map a call holds: those of the key's map, none when
\* that map has been taken out of the registry
Entries(pub) == IF pub.connections = "nil" \/ pub.stale THEN {} ELSE sseConnections[pub.key]

\* broadcastToSSE: RLock; connections := sseMgr.connections[endpointKey]; RUnlock
BroadcastSnapshot(b, key) ==
    /\ pubs[b].pc = "idle"
    /\ pubs' = [pubs EXCEPT ![b] =
                  [NoPub EXCEPT !.pc = "check", !.key = key,
                                !.connections = IF key \notin sseKeys THEN "nil"
                                                ELSE "map"]]
    /\ UNCHANGED <<limiterVars, tableVars, requests, forwardVars, caps, sseVars,
                   sseKeys, sseReaders, sseClosed, ssePanic, subs>>

\* if connections == nil || len(connections) == 0 { return }: len is read
\* without the lock, next to the writes of the handlers
BroadcastCheck(b) ==
    /\ pubs[b].pc = "check"
    /\ pubs' = [pubs EXCEPT ![b] =
                  IF Entries(pubs[b]) = {} THEN [@ EXCEPT !.pc = "done"]
                  ELSE [@ EXCEPT !.pc = "lock"]]
    /\ UNCHANGED <<limiterVars, tableVars, requests, forwardVars, caps, sseVars,
                   sseKeys, sseReaders, sseClosed, ssePanic, subs>>

\* sseMgr.mu.RLock(); for conn := range connections
BroadcastRLock(b) ==
    /\ pubs[b].pc = "lock"
    /\ sseReaders' = sseReaders \cup {b}
    /\ pubs' = [pubs EXCEPT ![b] = [@ EXCEPT !.pc = "loop", !.todo = Entries(pubs[b])]]
    /\ UNCHANGED <<limiterVars, tableVars, requests, forwardVars, caps, sseVars,
                   sseKeys, sseClosed, ssePanic, subs>>

\* select { case conn.ch <- data: default: }: a send on a closed channel
\* panics
BroadcastSend(b, conn) ==
    /\ pubs[b].pc = "loop"
    /\ conn \in pubs[b].todo
    /\ IF conn \in sseClosed
       THEN ssePanic' = TRUE /\ sseCh' = sseCh
       ELSE /\ sseCh' = [sseCh EXCEPT ![conn] = SendNonBlocking(@, 0)]
            /\ ssePanic' = ssePanic
    /\ pubs' = [pubs EXCEPT ![b] = [@ EXCEPT !.todo = @ \ {conn}]]
    /\ UNCHANGED <<limiterVars, tableVars, requests, forwardVars, caps, sseConnections,
                   sseKeys, sseReaders, sseClosed, subs>>

\* the loop is over: sseMgr.mu.RUnlock()
BroadcastRUnlock(b) ==
    /\ pubs[b].pc = "loop"
    /\ pubs[b].todo = {}
    /\ sseReaders' = sseReaders \ {b}
    /\ pubs' = [pubs EXCEPT ![b] = [@ EXCEPT !.pc = "done"]]
    /\ UNCHANGED <<limiterVars, tableVars, requests, forwardVars, caps, sseVars,
                   sseKeys, sseClosed, ssePanic, subs>>

InitLimiterState ==
    /\ clock = 0
    /\ limiter = [e \in Endpoints |-> <<>>]
    /\ admitted = [e \in Endpoints |-> <<>>]
    /\ lockSeq = 0

InitNoForwarding ==
    /\ transformations = <<>>
    /\ forward_attempts = [p \in CapIds \X RuleIds |-> <<>>]
    /\ tasks = [p \in CapIds \X RuleIds |-> NoTask]

\* no retention policy was ever stored and no replay was ever asked for
InitNoReplays ==
    /\ retention_policies = [e \in PolicyEndpoints |-> NoPolicy]
    /\ replays = [i \in ReplayIds |-> NoReplay]
    /\ replayTasks = [i \in ReplayIds |-> NoReplayTask]

\* nobody holds sseMgr.mu, no channel was closed, no broadcastToSSE call is
\* under way
InitNoBus ==
    /\ sseReaders = {}
    /\ sseClosed = {}
    /\ ssePanic = FALSE
    /\ pubs = [b \in PubIds |-> NoPub]

InitNoSubscribers ==
    /\ sseKeys = {}
    /\ sseConnections = [key \in SSEKeys |-> {}]
    /\ sseCh = [conn \in ConnIds |-> <<>>]
    /\ subs = [conn \in ConnIds |-> NoSub]

\* Capture pipeline with its forwarding, all within one instant: no request
\* yet.  Subscribers s1 and s3 opened their stream with the endpoint id as
\* the "endpoint" parameter, s2 with the slug; the channel of s1 holds the
\* events of earlier captures and is one short of full.
Init ==
    /\ InitLimiterState
    /\ InitNoReplays
    /\ InitNoBus
    /\ endpoint_settings \in [Endpoints ->
          {NoSettings} \cup
          {st \in SettingsRows :
              /\ st.hmac_secret \in {NULL, "s3cr"}
              /\ st.hmac_algorithm \in {NULL, "sha1"}
              /\ st.rate_limit_per_minute \in {{}, {1}}
              /\ IsNull(st.rate_limit_per_hour) /\ IsNull(st.rate_limit_per_day)
              /\ st.hmac_algorithm = NULL =>
                    st.hmac_secret = NULL /\ ~IsNull(st.rate_limit_per_minute)}]
    /\ forwarding_rules \in
          {[k \in RuleIds |-> IF k = "k1" THEN row ELSE [row EXCEPT !.enabled = FALSE]] :
              row \in {rr \in RuleRows : /\ rr.enabled /\ rr.max_retries = 2
                                         /\ rr.condition_type = "header_match"}}
    /\ requests = {}
    /\ caps = [c \in CapIds |-> NoCap]
    /\ pendingTrigger = {}
    /\ InitNoForwarding
    /\ sseKeys = SSEKeys
    /\ sseConnections = [key \in SSEKeys |->
          IF key \in {EndpointKey(e) : e \in Endpoints} THEN {"s1", "s3"} ELSE {"s2"}]
    /\ subs = [conn \in ConnIds |->
                 [NoSub EXCEPT !.pc = "listening",
                               !.key = IF conn = "s2" THEN endpoints["e1"].slug
                                       ELSE EndpointKey("e1")]]
    /\ sseCh \in {[conn \in ConnIds |-> IF conn = "s1" THEN [i \in 1..n |-> 0] ELSE <<>>] :
                    n \in {SSEBuffer - 1}}

CaptureStep(c) ==
    \/ CaptureStart(c)
    \/ RLRead(c)
    \/ RLCheck(c)
    \/ Verify(c)
    \/ Insert(c)
    \/ Publish(c)
    \/ SpawnAndRespond(c)

\* the tasks of request r that the task for rule k waits for before each of
\* its steps: none, triggerForwarding starts every forwardRequest with `go`
\* and nothing joins them
Awaits_Sequential(r, k) == IF k = "k2" THEN {"k1"} ELSE {}
Awaits(r, k) == {}

\* the next step of the forwardRequest goroutine of request r and rule k
ForwardTask(r, k) ==
    /\ \A j \in Awaits(r, k) : tasks[<<r, j>>].pc \in {"none", "done"}
    /\ \/ StartForward(r, k)
       \/ ExecuteForward(r, k)
       \/ BackoffSleep(r, k)

ForwardStep ==
    \/ \E r \in CapIds : TriggerForwarding(r)
    \/ \E r \in CapIds, k \in RuleIds : ForwardTask(r, k)

Next ==
    \/ \E c \in CapIds : CaptureStep(c)
    \/ ForwardStep

Spec == Init /\ [][Next]_vars

\* the handler goroutines are scheduled fairly; nothing is assumed of the
\* forwarding goroutines, of their targets or of the subscribers
LiveSpec == Spec /\ \A c \in CapIds : WF_vars(CaptureStep(c))

\* Capture handlers while time passes, on a rate-limited endpoint without
\* enabled rules or subscribers.
InitRate ==
    /\ InitLimiterState
    /\ InitNoReplays
    /\ InitNoBus
    /\ endpoint_settings \in [Endpoints ->
          {st \in SettingsRows :
              /\ st.hmac_secret \in {NULL, "s3cr"}
              /\ st.hmac_algorithm = "sha1"
              /\ st.rate_limit_per_minute \in {{0}, {1}}
              /\ IsNull(st.rate_limit_per_hour) /\ IsNull(st.rate_limit_per_day)}]
    /\ forwarding_rules \in {[k \in RuleIds |-> row] :
          row \in {rr \in RuleRows : ~rr.enabled /\ rr.max_retries = 1
                                      /\ rr.condition_type = NULL}}
    /\ requests = {}
    /\ caps = [c \in CapIds |-> NoCap]
    /\ pendingTrigger = {}
    /\ InitNoForwarding
    /\ InitNoSubscribers

NextRate ==
    \/ \E c \in CapIds : CaptureStep(c)
    \/ \E r \in CapIds : TriggerForwarding(r)
    \/ Tick

SpecRate == InitRate /\ [][NextRate]_vars

\* Forwarder alone: request 1 was captured and answered, its
\* triggerForwarding goroutine has been spawned.
DoneCapture(e, body, headers) ==
    [NoCap EXCEPT !.pc = "done", !.endpoint_id = e, !.body = body,
                  !.headers = headers, !.status = StatusOK,
                  !.log = <<"insert", "publish", "schedule", "respond">>]

InitForward ==
    /\ InitLimiterState
    /\ InitNoReplays
    /\ InitNoBus
    /\ endpoint_settings = [e \in Endpoints |-> NoSettings]
    /\ forwarding_rules \in [RuleIds -> RuleRows]
    /\ \E in \in {<<BodyOfLen(MaxBodySize), [NoHeaders EXCEPT !["X-Event"] = << <<Text("push")>> >>]>>,
                  <<<<255>>, NoHeaders>>} :
          caps = [c \in CapIds |-> IF c = 1 THEN DoneCapture("e1", in[1], in[2]) ELSE NoCap]
    /\ requests = {RequestRow(1)}
    /\ pendingTrigger = {1}
    /\ InitNoForwarding
    /\ InitNoSubscribers

NextForward == ForwardStep

SpecForward == InitForward /\ [][NextForward]_vars

\* every spawned goroutine keeps being scheduled, and every outbound call
\* returns (the client's 30 s timeout)
LiveForward ==
    /\ SpecForward
    /\ \A r \in CapIds : WF_vars(TriggerForwarding(r))
    /\ \A r \in CapIds, k \in RuleIds : WF_vars(ForwardTask(r, k))

\* Rows of table transformations: the enabled ones for requests with every
\* language and script, the others (disabled, or for responses only) with
\* the scripts that would leave a trace if they were run.  A script that
\* assigns to its input and then fails is
\*   function f(){ input.injected = true; throw new Error("x") } f()
Scripts ==
    {<<"javascript", "ok">>, <<"javascript", "object">>, <<"javascript", "null">>,
     <<"javascript", "throws">>, <<"javascript", "mutates_throws">>,
     <<"jq", "ok">>, <<"jq", "throws">>, <<"lua", "ok">>}

TransformationRows ==
    {row \in {[endpoint_id |-> e, enabled |-> en, apply_to |-> a,
               language |-> ls[1], script |-> ls[2]] :
                 e \in Endpoints, en \in BOOLEAN,
                 a \in {"request", "response", "both"}, ls \in Scripts} :
        \/ row.enabled /\ row.apply_to # "response"
        \/ row.script \in {"object", "mutates_throws"}}

RECURSIVE SeqsUpTo(_, _)
SeqsUpTo(S, n) ==
    IF n = 0 THEN {<<>>}
    ELSE LET shorter == SeqsUpTo(S, n - 1)
         IN  shorter \cup {Append(q, x) : q \in shorter, x \in S}

\* The forwarder with transformations: one captured request, rule k1 enabled
\* and unconditional, up to MaxTransforms transformations of the endpoint.
InitTransform ==
    /\ InitLimiterState
    /\ InitNoReplays
    /\ InitNoBus
    /\ endpoint_settings = [e \in Endpoints |-> NoSettings]
    /\ forwarding_rules \in
          {[k \in RuleIds |-> IF k = "k1" THEN r1 ELSE r2] :
              r1 \in {rr \in RuleRows : rr.enabled /\ rr.condition_type = NULL
                                         /\ rr.max_retries = 2},
              r2 \in {rr \in RuleRows : ~rr.enabled /\ rr.condition_type = NULL
                                         /\ rr.max_retries = 1}}
    /\ transformations \in SeqsUpTo(TransformationRows, MaxTransforms)
    /\ caps = [c \in CapIds |-> IF c = 1 THEN DoneCapture("e1", BodyOfLen(1), NoHeaders)
                                ELSE NoCap]
    /\ requests = {RequestRow(1)}
    /\ pendingTrigger = {1}
    /\ tasks = [p \in CapIds \X RuleIds |-> NoTask]
    /\ forward_attempts = [p \in CapIds \X RuleIds |-> <<>>]
    /\ InitNoSubscribers

SpecTransform == InitTransform /\ [][NextForward]_vars

\* backoff_config values a rule may hold (CreateForwardingRule and
\* UpdateForwardingRule store what the request gives, unexamined); min_ms
\* and max_ms in units of 1/PerMs ms, zero standing for an absent key:
\* min_ms absent, 1.5 ms, 10 ms; max_ms absent, 5 ms, 25 ms
BackoffConfigs ==
    {[type |-> ty, base |-> b, min_ms |-> mn, max_ms |-> mx] :
        ty \in {"exponential", "linear", "fixed"}, b \in {0, 3},
        mn \in {0, 3, 20}, mx \in {0, 10, 50}}

\* The forwarder with every backoff configuration: one captured request,
\* rule k1 enabled and unconditional, its target either arbitrary or the one
\* that answers 500, 500, 200.
InitBackoff ==
    /\ InitLimiterState
    /\ InitNoReplays
    /\ InitNoBus
    /\ endpoint_settings = [e \in Endpoints |-> NoSettings]
    /\ forwarding_rules \in
          {[k \in RuleIds |->
               IF k = "k1" THEN [r1 EXCEPT !.target_url = url, !.backoff_config = cfg]
               ELSE r2] :
              r1 \in {rr \in RuleRows : rr.enabled /\ rr.condition_type = NULL
                                         /\ rr.max_retries >= 1},
              r2 \in {rr \in RuleRows : ~rr.enabled /\ rr.condition_type = NULL
                                         /\ rr.max_retries = 1},
              url \in {"any", "flaky"}, cfg \in BackoffConfigs}
    /\ caps = [c \in CapIds |-> IF c = 1 THEN DoneCapture("e1", BodyOfLen(1), NoHeaders)
                                ELSE NoCap]
    /\ requests = {RequestRow(1)}
    /\ pendingTrigger = {1}
    /\ InitNoForwarding
    /\ InitNoSubscribers

SpecBackoff == InitBackoff /\ [][NextForward]_vars

\* The forwarder against targets of known behaviour: one captured request,
\* both rules enabled and unconditional, each with a target of its own.
ScriptedTargets == {"flaky", "edge", "down", "badurl"}

InitTargets ==
    /\ InitLimiterState
    /\ InitNoReplays
    /\ InitNoBus
    /\ endpoint_settings = [e \in Endpoints |-> NoSettings]
    /\ forwarding_rules \in
          {[k \in RuleIds |-> [IF k = "k1" THEN r1 ELSE r2 EXCEPT !.target_url = url[k]]] :
              r1 \in {rr \in RuleRows : rr.enabled /\ rr.condition_type = NULL},
              r2 \in {rr \in RuleRows : rr.enabled /\ rr.condition_type = NULL
                                         /\ rr.max_retries = 2},
              url \in [RuleIds -> ScriptedTargets]}
    /\ caps = [c \in CapIds |-> IF c = 1 THEN DoneCapture("e1", BodyOfLen(1), NoHeaders)
                                ELSE NoCap]
    /\ requests = {RequestRow(1)}
    /\ pendingTrigger = {1}
    /\ InitNoForwarding
    /\ InitNoSubscribers

SpecTargets == InitTargets /\ [][NextForward]_vars

\* every kind of condition a rule can carry: none, always, an unknown type,
\* header_match and body_match with configs that match, that do not, and
\* that lack a field
AllConditions ==
    Conditions \cup
    {<<"always", NoConfig>>, <<"regex", NoConfig>>,
     <<"header_match", [HeaderConfig EXCEPT !.value = <<Text("other")>>]>>,
     <<"header_match", [HeaderConfig EXCEPT !.header = "x-event"]>>,
     <<"header_match", [HeaderConfig EXCEPT !.keys = {"header"}]>>,
     <<"header_match", [HeaderConfig EXCEPT !.keys = {"value"}]>>,
     <<"body_match", [BodyConfig EXCEPT !.pattern = <<98>>]>>,
     <<"body_match", [BodyConfig EXCEPT !.pattern = <<>>]>>,
     <<"body_match", [BodyConfig EXCEPT !.keys = {}]>>}

\* triggerForwarding over every kind of condition: one captured request
\* (with the header X-Event: push, with X-Event: other, push, or without
\* it), rule k1 with any condition, rule k2 an enabled header_match rule.
InitCondition ==
    /\ InitLimiterState
    /\ InitNoReplays
    /\ InitNoBus
    /\ endpoint_settings = [e \in Endpoints |-> NoSettings]
    /\ forwarding_rules \in
          {[k \in RuleIds |->
               IF k = "k1"
               THEN [r1 EXCEPT !.condition_type = cond[1], !.condition_config = cond[2]]
               ELSE r2] :
              r1 \in {rr \in RuleRows : rr.condition_type = NULL /\ rr.max_retries = 2},
              r2 \in {rr \in RuleRows : rr.enabled /\ rr.condition_type = "header_match"
                                         /\ rr.max_retries = 1},
              cond \in AllConditions}
    /\ \E in \in {<<BodyOfLen(MaxBodySize), [NoHeaders EXCEPT !["X-Event"] = << <<Text("push")>> >>]>>,
                  <<BodyOfLen(1), [NoHeaders EXCEPT !["X-Event"] =
                                      << <<Text("other")>>, <<Text("push")>> >>]>>,
                  <<<<255>>, NoHeaders>>} :
          caps = [c \in CapIds |-> IF c = 1 THEN DoneCapture("e1", in[1], in[2]) ELSE NoCap]
    /\ requests = {RequestRow(1)}
    /\ pendingTrigger = {1}
    /\ InitNoForwarding
    /\ InitNoSubscribers

SpecCondition == InitCondition /\ [][NextForward]_vars

\* Rate limiter alone: two callers of CheckRateLimit for endpoint e1.
InitLimiter ==
    /\ InitLimiterState
    /\ InitNoReplays
    /\ InitNoBus
    /\ endpoint_settings \in [Endpoints ->
          {NoSettings} \cup
          {st \in SettingsRows :
              /\ st.hmac_secret = NULL /\ st.hmac_algorithm = "sha256"
              /\ \/ IsNull(st.rate_limit_per_hour) /\ IsNull(st.rate_limit_per_day)
                 \/ IsNull(st.rate_limit_per_minute) /\ IsNull(st.rate_limit_per_day)
                 \/ IsNull(st.rate_limit_per_minute) /\ IsNull(st.rate_limit_per_hour)}]
    /\ forwarding_rules \in {[k \in RuleIds |-> row] :
          row \in {rr \in RuleRows : ~rr.enabled /\ rr.max_retries = 1
                                      /\ rr.condition_type = NULL}}
    /\ requests = {}
    /\ caps = [c \in CapIds |-> [NoCap EXCEPT !.pc = "rl_read", !.endpoint_id = "e1"]]
    /\ pendingTrigger = {}
    /\ InitNoForwarding
    /\ InitNoSubscribers

NextLimiter ==
    \/ \E c \in CapIds : RLRead(c)
    \/ \E c \in CapIds : RLCheck(c)
    \/ \E c \in CapIds : CallAgain(c)
    \/ Tick

SpecLimiter == InitLimiter /\ [][NextLimiter]_vars

\* Replays next to the forwarder: request 1 was captured and answered, with
\* a text body or a binary one; rule k1 is enabled and unconditional, k2 is
\* disabled; the endpoint has no transformation or one for requests.
InitReplay ==
    /\ InitLimiterState
    /\ InitNoReplays
    /\ InitNoBus
    /\ endpoint_settings = [e \in Endpoints |-> NoSettings]
    /\ forwarding_rules \in
          {[k \in RuleIds |-> IF k = "k1" THEN r1 ELSE r2] :
              r1 \in {rr \in RuleRows : rr.enabled /\ rr.condition_type = NULL
                                         /\ rr.max_retries = 2},
              r2 \in {rr \in RuleRows : ~rr.enabled /\ rr.condition_type = NULL
                                         /\ rr.max_retries = 1}}
    /\ transformations \in
          {<<>>, <<[endpoint_id |-> "e1", enabled |-> TRUE, apply_to |-> "request",
                   language |-> "javascript", script |-> "ok"]>>}
    /\ \E body \in {BodyOfLen(MaxBodySize), <<255>>} :
          caps = [c \in CapIds |-> IF c = 1 THEN DoneCapture("e1", body, NoHeaders) ELSE NoCap]
    /\ requests = {RequestRow(1)}
    /\ pendingTrigger = {1}
    /\ tasks = [p \in CapIds \X RuleIds |-> NoTask]
    /\ forward_attempts = [p \in CapIds \X RuleIds |-> <<>>]
    /\ InitNoSubscribers

NextReplay ==
    \/ ForwardStep
    \/ ReplayStep

SpecReplay == InitReplay /\ [][NextReplay]_vars

\* The running server with its retention policies, next to the forwarder:
\* request 1 was captured and answered at instant 0, time passes, and the
\* policy of the endpoint is set and changed through the API.
InitSweep ==
    /\ InitLimiterState
    /\ InitNoReplays
    /\ InitNoBus
    /\ endpoint_settings = [e \in Endpoints |-> NoSettings]
    /\ forwarding_rules \in
          {[k \in RuleIds |-> IF k = "k1" THEN r1 ELSE r2] :
              r1 \in {rr \in RuleRows : rr.enabled /\ rr.condition_type = NULL
                                         /\ rr.max_retries = 2},
              r2 \in {rr \in RuleRows : ~rr.enabled /\ rr.condition_type = NULL
                                         /\ rr.max_retries = 1}}
    /\ caps = [c \in CapIds |-> IF c = 1 THEN DoneCapture("e1", BodyOfLen(1), NoHeaders)
                                ELSE NoCap]
    /\ requests = {RequestRow(1)}
    /\ pendingTrigger = {1}
    /\ InitNoForwarding
    /\ InitNoSubscribers

\* what runs in the server: the handlers of its routes and the goroutines
\* they spawn; of the goroutines of main none does anything to the tables
NextSweep ==
    \/ \E e \in Endpoints : UpdateRetentionPolicy(e)
    \/ ForwardStep
    \/ Tick

SpecSweep == InitSweep /\ [][NextSweep]_vars

\* the server keeps running: time passes, every goroutine is scheduled, and
\* the policies keep being written through the API
LiveSweep ==
    /\ SpecSweep
    /\ WF_vars(Tick)
    /\ WF_vars(\E e \in Endpoints : UpdateRetentionPolicy(e))
    /\ \A r \in CapIds : WF_vars(TriggerForwarding(r))
    /\ \A r \in CapIds, k \in RuleIds : WF_vars(ForwardTask(r, k))

\* The event bus alone: subscriber s1 listens on the endpoint's key with a
\* channel one short of full, s2 and s3 have not connected yet; the
\* broadcastToSSE calls publish to either key.
InitBus ==
    /\ InitLimiterState
    /\ InitNoReplays
    /\ endpoint_settings = [e \in Endpoints |-> NoSettings]
    /\ forwarding_rules \in {[k \in RuleIds |-> row] :
          row \in {rr \in RuleRows : ~rr.enabled /\ rr.max_retries = 1
                                      /\ rr.condition_type = NULL}}
    /\ requests = {}
    /\ caps = [c \in CapIds |-> NoCap]
    /\ pendingTrigger = {}
    /\ InitNoForwarding
    /\ InitNoBus
    /\ sseKeys = {EndpointKey("e1")}
    /\ sseConnections = [key \in SSEKeys |-> IF key = EndpointKey("e1") THEN {"s1"} ELSE {}]
    /\ sseCh = [conn \in ConnIds |-> IF conn = "s1" THEN [i \in 1..(SSEBuffer - 1) |-> 0]
                                     ELSE <<>>]
    /\ subs = [conn \in ConnIds |->
                 IF conn = "s1" THEN [NoSub EXCEPT !.pc = "listening", !.key = EndpointKey("e1")]
                 ELSE NoSub]

NextBus ==
    \/ \E conn \in ConnIds, key \in SSEKeys : Subscribe(conn, key)
    \/ \E conn \in ConnIds : Receive(conn)
    \/ \E conn \in ConnIds : Unregister(conn)
    \/ \E conn \in ConnIds : CloseChannel(conn)
    \/ \E b \in PubIds, key \in SSEKeys : BroadcastSnapshot(b, key)
    \/ \E b \in PubIds : BroadcastCheck(b)
    \/ \E b \in PubIds : BroadcastRLock(b)
    \/ \E b \in PubIds, conn \in ConnIds : BroadcastSend(b, conn)
    \/ \E b \in PubIds : BroadcastRUnlock(b)

SpecBus == InitBus /\ [][NextBus]_vars

\* CleanupOldRequests as a sweeper would call it: requests 1 (of endpoint
\* e1) and 2 (of e2) were stored at instant 0, time passes, and the policies
\* of both endpoints are set and changed through the API.
StoredRequest(id, e, body, t) ==
    [id |-> id, endpoint_id |-> e, method |-> "POST", headers |-> NoHeaders,
     body |-> StoredBody(body), body_size |-> Len(body), received_at |-> t]

InitCleanup ==
    /\ InitLimiterState
    /\ InitNoReplays
    /\ InitNoBus
    /\ endpoint_settings = [e \in Endpoints |-> NoSettings]
    /\ forwarding_rules \in {[k \in RuleIds |-> row] :
          row \in {rr \in RuleRows : ~rr.enabled /\ rr.max_retries = 1
                                      /\ rr.condition_type = NULL}}
    /\ caps = [c \in CapIds |-> NoCap]
    /\ requests = {StoredRequest(1, "e1", BodyOfLen(1), 0),
                   StoredRequest(2, "e2", BodyOfLen(1), 0)}
    /\ pendingTrigger = {}
    /\ InitNoForwarding
    /\ InitNoSubscribers

NextCleanup ==
    \/ \E e \in PolicyEndpoints : UpdateRetentionPolicy(e)
    \/ CleanupOldRequests
    \/ Tick

SpecCleanup == InitCleanup /\ [][NextCleanup]_vars

\* VerifySignature on its own: a capture that has passed the limiter, on an
\* endpoint with a secret, with any combination of the four signature
\* headers absent, empty, right (bare or with the "<algorithm>=" prefix) or
\* wrong.
SignedAlgorithms == (Algorithms \ {NULL}) \cup {"md5"}
SignedValues(st, body) ==
    LET good == HmacHex(HashOf(st.hmac_algorithm), st.hmac_secret, body)
        other == HmacHex(HashOf(st.hmac_algorithm), st.hmac_secret, <<0>>)
    IN  {<<>>, << <<>> >>, << <<good>> >>, << <<Prefix(st.hmac_algorithm), good>> >>,
         << <<other>> >>}
SignedHeaders(st, body) ==
    {[h \in HeaderNames |-> IF h \in Range(SigHeaders) THEN v[h] ELSE <<>>] :
        v \in [Range(SigHeaders) -> SignedValues(st, body)]}

InitVerify ==
    /\ InitLimiterState
    /\ InitNoReplays
    /\ InitNoBus
    /\ endpoint_settings \in [Endpoints ->
          {[NoSettings EXCEPT !.exists = TRUE, !.hmac_secret = "s3cr",
                              !.hmac_algorithm = a] : a \in SignedAlgorithms}]
    /\ forwarding_rules = [k \in RuleIds |->
          CHOOSE rr \in RuleRows : ~rr.enabled /\ rr.max_retries = 1
                                    /\ rr.condition_type = NULL]
    /\ caps \in {[c \in CapIds |->
                    IF c = 1 THEN [NoCap EXCEPT !.pc = "verify", !.endpoint_id = "e1",
                                                !.body = BodyOfLen(1), !.headers = headers]
                    ELSE NoCap] :
                 headers \in SignedHeaders(endpoint_settings["e1"], BodyOfLen(1))}
    /\ requests = {}
    /\ pendingTrigger = {}
    /\ InitNoForwarding
    /\ InitNoSubscribers

NextVerify == \E c \in CapIds : Verify(c)

SpecVerify == InitVerify /\ [][NextVerify]_vars

\* CheckRateLimit called for two endpoints: capture 1 is on e1, capture 2 on
\* e2, each endpoint with no settings row or with a limit per minute.
InitKeys ==
    /\ clock = 0
    /\ lockSeq = 0
    /\ limiter = [e \in PolicyEndpoints |-> <<>>]
    /\ admitted = [e \in PolicyEndpoints |-> <<>>]
    /\ InitNoReplays
    /\ InitNoBus
    /\ endpoint_settings \in [PolicyEndpoints ->
          {NoSettings} \cup
          {st \in SettingsRows :
              /\ st.hmac_secret = NULL /\ st.hmac_algorithm = "sha256"
              /\ ~IsNull(st.rate_limit_per_minute)
              /\ IsNull(st.rate_limit_per_hour) /\ IsNull(st.rate_limit_per_day)}]
    /\ forwarding_rules = [k \in RuleIds |->
          CHOOSE rr \in RuleRows : ~rr.enabled /\ rr.max_retries = 1
                                    /\ rr.condition_type = NULL]
    /\ requests = {}
    /\ caps = [c \in CapIds |-> [NoCap EXCEPT !.pc = "rl_read",
                                              !.endpoint_id = IF c = 1 THEN "e1" ELSE "e2"]]
    /\ pendingTrigger = {}
    /\ InitNoForwarding
    /\ InitNoSubscribers

NextKeys ==
    \/ \E c \in CapIds : RLRead(c)
    \/ \E c \in CapIds : RLCheck(c)
    \/ \E c \in CapIds : CallAgain(c)
    \/ Tick

SpecKeys == InitKeys /\ [][NextKeys]_vars

\* The forwarder while the rules are edited and deleted through the API: one
\* captured request, rule k1 enabled and unconditional with a target that
\* refuses every connection, rule k2 disabled and left alone.
InitEdit ==
    /\ InitLimiterState
    /\ InitNoReplays
    /\ InitNoBus
    /\ endpoint_settings = [e \in Endpoints |-> NoSettings]
    /\ forwarding_rules \in
          {[k \in RuleIds |->
               IF k = "k1" THEN [r1 EXCEPT !.target_url = "down"] ELSE r2] :
              r1 \in {rr \in RuleRows : rr.enabled /\ rr.condition_type = NULL
                                         /\ rr.max_retries = 2},
              r2 \in {rr \in RuleRows : ~rr.enabled /\ rr.condition_type = NULL
                                         /\ rr.max_retries = 1}}
    /\ caps = [c \in CapIds |-> IF c = 1 THEN DoneCapture("e1", BodyOfLen(1), NoHeaders)
                                ELSE NoCap]
    /\ requests = {RequestRow(1)}
    /\ pendingTrigger = {1}
    /\ InitNoForwarding
    /\ InitNoSubscribers

NextEdit ==
    \/ ForwardStep
    \/ UpdateForwardingRule("k1")
    \/ DeleteForwardingRule("k1")

SpecEdit == InitEdit /\ [][NextEdit]_vars

\* The forwarder over JSON and other bodies, with static headers on the
\* rule: one captured request whose body is empty, plain text, the JSON
\* string "a", the JSON number 1.0 or the JSON null; rule k1 enabled and
\* unconditional, setting no header, one the capture holds or one it lacks.
ChainBodies == {<<>>, BodyOfLen(1), <<34, 97, 34>>, <<49, 46, 48>>, JsonNull}
StaticHeaders == {{}, {"X-Event"}, {"X-Static"}}

InitChain ==
    /\ InitLimiterState
    /\ InitNoReplays
    /\ InitNoBus
    /\ endpoint_settings = [e \in Endpoints |-> NoSettings]
    /\ forwarding_rules \in
          {[k \in RuleIds |-> IF k = "k1" THEN [r1 EXCEPT !.headers = hs] ELSE r2] :
              r1 \in {rr \in RuleRows : rr.enabled /\ rr.condition_type = NULL
                                         /\ rr.max_retries = 1},
              r2 \in {rr \in RuleRows : ~rr.enabled /\ rr.condition_type = NULL
                                         /\ rr.max_retries = 1},
              hs \in StaticHeaders}
    /\ transformations \in SeqsUpTo({row \in TransformationRows : row.enabled}, MaxTransforms)
    /\ \E body \in ChainBodies :
          caps = [c \in CapIds |->
                    IF c = 1
                    THEN DoneCapture("e1", body, [NoHeaders EXCEPT !["X-Event"] = << <<Text("push")>> >>])
                    ELSE NoCap]
    /\ requests = {RequestRow(1)}
    /\ pendingTrigger = {1}
    /\ tasks = [p \in CapIds \X RuleIds |-> NoTask]
    /\ forward_attempts = [p \in CapIds \X RuleIds |-> <<>>]
    /\ InitNoSubscribers

SpecChain == InitChain /\ [][NextForward]_vars

(***************************************************************************)
(* Properties                                                              *)
(***************************************************************************)

Pairs == CapIds \X RuleIds
AttemptNumbers(p) == {forward_attempts[p][i].attempt_number : i \in DOMAIN forward_attempts[p]}
HasSuccess(rows) == \E i \in DOMAIN rows : rows[i].status = "success"
Inserted(c) == \E q \in requests : q.id = c
IsPrefix(s, t) == Len(s) <= Len(t) /\ SubSeq(t, 1, Len(s)) = s

\* C1 as stated: for every request R and rule K the attempt numbers in
\* forward_attempts are exactly 1..n, without duplicates, and n is at most
\* K.max_retries.
C1_AsStated ==
    \A p \in Pairs :
        /\ AttemptNumbers(p) = 1..Len(forward_attempts[p])
        /\ Len(forward_attempts[p]) <= forwarding_rules[p[2]].max_retries

\* C1 as amended: the attempt numbers of (R, K) are recorded in strictly
\* increasing order (so without duplicates) and lie in 1..max(1, K.max_retries);
\* the numbers recorded and the numbers whose insert failed are together
\* exactly 1..n, n being the number of calls made, so there is no gap as long
\* as no insert has failed.
C1_Attempts ==
    \A p \in Pairs :
        LET rows == forward_attempts[p]
            m == Max(1, forwarding_rules[p[2]].max_retries)
        IN  /\ \A i \in DOMAIN rows : rows[i].attempt_number \in 1..m
            /\ \A i \in DOMAIN rows : \A j \in DOMAIN rows :
                  i < j => rows[i].attempt_number < rows[j].attempt_number
            /\ AttemptNumbers(p) \cup tasks[p].lost = 1..tasks[p].calls
            /\ AttemptNumbers(p) \cap tasks[p].lost = {}

\* C1 witness: a rule with max_retries = 0 has one recorded attempt, and
\* another pair has all of 1..MaxRetriesRule recorded.
C1_Witness ==
    /\ \E p \in Pairs : /\ forwarding_rules[p[2]].max_retries = 0
                        /\ AttemptNumbers(p) = {1}
    /\ \E p \in Pairs : /\ MaxRetriesRule > 1
                        /\ AttemptNumbers(p) = 1..MaxRetriesRule

\* C2: once a success row is recorded for (R, K) no further row is recorded
\* for (R, K), and a success row is the last and highest-numbered row of its
\* pair.
C2_SuccessIsLast ==
    \A p \in Pairs : \A i \in DOMAIN forward_attempts[p] :
        forward_attempts[p][i].status = "success" =>
            /\ i = Len(forward_attempts[p])
            /\ \A j \in DOMAIN forward_attempts[p] :
                  forward_attempts[p][j].attempt_number
                      <= forward_attempts[p][i].attempt_number
C2_NothingAfterSuccess ==
    \A p \in Pairs :
        HasSuccess(forward_attempts[p]) => forward_attempts'[p] = forward_attempts[p]
\* C2: a success row is always the last and highest-numbered row of its
\* pair, and no step adds a row to a pair that has a success row.
C2_SuccessFinal == [](C2_SuccessIsLast) /\ [][C2_NothingAfterSuccess]_vars

\* C2 witness: a task that stopped on a success before its retries were
\* used up, after an earlier failed attempt.
C2_Witness ==
    \E p \in Pairs :
        /\ tasks[p].pc = "done"
        /\ Len(forward_attempts[p]) = 2
        /\ forward_attempts[p][2].status = "success"
        /\ tasks[p].calls < tasks[p].maxRetries

\* what the loop of a finished task did, against the rule's max_retries
C3_Bounded(p) ==
    LET m == Max(1, forwarding_rules[p[2]].max_retries) IN
    /\ tasks[p].calls <= m
    /\ tasks[p].result \in {"success", "failed"}
    /\ tasks[p].result = "failed" => tasks[p].calls = m

C3_Final ==
    \A p \in Pairs :
        tasks[p].pc = "done" =>
            /\ C3_Bounded(p)
            /\ tasks[p].calls \notin tasks[p].lost =>
                  /\ Len(forward_attempts[p]) > 0
                  /\ forward_attempts[p][Len(forward_attempts[p])].status = tasks[p].result
                  /\ forward_attempts[p][Len(forward_attempts[p])].attempt_number
                        = tasks[p].calls
InWindow(e, w, length) ==
    Cardinality({i \in DOMAIN admitted[e] :
                    admitted[e][i] > w - length /\ admitted[e][i] <= w})

\* C4: with rate_limit_per_minute = L, under any interleaving of the calls,
\* no trailing 60-second window holds more than L admitted timestamps.
C4_AsStated ==
    \A e \in Endpoints :
        LET st == endpoint_settings[e] IN
        (st.exists /\ ~IsNull(st.rate_limit_per_minute)) =>
            \A i \in DOMAIN admitted[e] :
                InWindow(e, admitted[e][i], Minute) <= Val(st.rate_limit_per_minute)

\* C5: with rate_limit_per_day = D as the only limit, no trailing 24-hour
\* window holds more than D admissions.
C5_AsStated ==
    \A e \in Endpoints :
        LET st == endpoint_settings[e] IN
        (/\ st.exists /\ ~IsNull(st.rate_limit_per_day)
         /\ IsNull(st.rate_limit_per_minute) /\ IsNull(st.rate_limit_per_hour)) =>
            \A i \in DOMAIN admitted[e] :
                InWindow(e, admitted[e][i], Day) <= Val(st.rate_limit_per_day)

\* the captures that got as far as the rate limiter of endpoint e
Reached_e(e) == {c \in CapIds : caps[c].endpoint_id = e /\ caps[c].pc # "idle"}

\* L+1 captures on e, all finished, all inside one minute, none hit by a
\* database failure or rejected for anything but the rate limit
C6_Burst(e) ==
    LET st == endpoint_settings[e]
        S == Reached_e(e)
    IN  /\ st.exists /\ ~IsNull(st.rate_limit_per_minute)
        /\ IsNull(st.rate_limit_per_hour) /\ IsNull(st.rate_limit_per_day)
        /\ Cardinality(S) = Val(st.rate_limit_per_minute) + 1
        /\ \A c \in S : /\ caps[c].pc = "done" /\ ~caps[c].dbErr
                        /\ caps[c].status \in {StatusOK, StatusTooManyRequests}
        /\ \A c \in S : \A d \in S : caps[c].now - caps[d].now < Minute

\* C6: with rate_limit_per_minute = L as the only limit and an empty
\* history, of L+1 otherwise valid captures inside one minute the first L (in
\* limiter order) are answered 200 and persisted, the last is answered 429,
\* and exactly L request rows exist.
C6_BurstLimited ==
    \A e \in Endpoints :
        C6_Burst(e) =>
            LET L == Val(endpoint_settings[e].rate_limit_per_minute)
                S == Reached_e(e)
            IN  /\ \A c \in S : caps[c].order \in 1..(L + 1)
                /\ \A c \in S : caps[c].order <= L <=>
                                    (caps[c].status = StatusOK /\ Inserted(c))
                /\ \A c \in S : caps[c].order = L + 1 <=>
                                    (caps[c].status = StatusTooManyRequests /\ ~Inserted(c))
                /\ Cardinality({c \in S : caps[c].order <= L}) = L
                /\ Cardinality({q \in requests : q.endpoint_id = e}) = L

\* C6 witness: such a burst with L = 1, its two captures 59 seconds apart.
C6_Witness ==
    \E e \in Endpoints :
        /\ C6_Burst(e)
        /\ endpoint_settings[e].rate_limit_per_minute = {1}
        /\ \E c \in Reached_e(e) : \E d \in Reached_e(e) :
              /\ caps[d].now - caps[c].now = Minute - 1
              /\ caps[c].status = StatusOK /\ caps[d].status = StatusTooManyRequests

\* the endpoint of capture c has a non-empty HMAC secret configured
SecretSet(c) ==
    LET st == endpoint_settings[caps[c].endpoint_id] IN
    /\ caps[c].endpoint_id \in Endpoints
    /\ st.exists /\ st.hmac_secret # NULL /\ st.hmac_secret # ""

\* the signature carried by capture c, its scheme prefix removed, is the hex
\* HMAC of the raw body under the configured algorithm
Matches(c) ==
    LET st == endpoint_settings[caps[c].endpoint_id]
        signature == FirstSignature(caps[c].headers, 1)
    IN  /\ signature # <<>>
        /\ StripPrefixes(signature, st.hmac_algorithm)
              = <<HmacHex(HashOf(st.hmac_algorithm), st.hmac_secret, caps[c].body)>>

\* capture c was admitted by the rate limiter, has been answered, and no
\* database call of its handler failed
Judged(c) ==
    /\ caps[c].pc = "done" /\ caps[c].endpoint_id # ""
    /\ ~caps[c].dbErr /\ caps[c].status # StatusTooManyRequests

Published(c) == \E conn \in ConnIds : c \in Range(sseCh[conn])
Scheduled(c) == c \in pendingTrigger \/ \E k \in RuleIds : tasks[<<c, k>>].pc # "none"

\* C7: with a non-empty secret a row is inserted only for a matching
\* signature, and a capture with a signature that does not match is answered
\* 401 and is never persisted, published or forwarded; with no settings row
\* or a null or empty secret verification passes whatever the headers, so
\* the capture goes on to be stored and answered 200.
C7_AsStated ==
    \A c \in CapIds :
        /\ (SecretSet(c) /\ Inserted(c)) => Matches(c)
        /\ (/\ SecretSet(c) /\ Judged(c)
            /\ FirstSignature(caps[c].headers, 1) # <<>> /\ ~Matches(c)) =>
                /\ caps[c].status = StatusUnauthorized
                /\ ~Inserted(c) /\ ~Published(c) /\ ~Scheduled(c)
        /\ (~SecretSet(c) /\ Judged(c)) => caps[c].status = StatusOK

\* C8: with a secret configured, a capture that carries none of the
\* signature headers is answered 401 and nothing is persisted.
C8_AsStated ==
    \A c \in CapIds :
        (SecretSet(c) /\ Judged(c) /\ FirstSignature(caps[c].headers, 1) = <<>>) =>
            /\ caps[c].status = StatusUnauthorized
            /\ ~Inserted(c)

\* C9: for every capture the insert commits, then the event is published,
\* then forwarding is scheduled (then the handler answers); nothing is
\* published and no forwarding is scheduled for a request without a
\* committed row.
C9_Order ==
    \A c \in CapIds :
        /\ IsPrefix(caps[c].log, <<"insert", "publish", "schedule", "respond">>)
        /\ Len(caps[c].log) > 0 => Inserted(c)
        /\ Published(c) => (Inserted(c) /\ Len(caps[c].log) >= 2)
        /\ Scheduled(c) => (Inserted(c) /\ Len(caps[c].log) >= 3)

\* C9 witness: one capture stored, published to the subscriber and
\* scheduled; another whose insert failed, answered 500.
C9_Witness ==
    /\ \E c \in CapIds : /\ Inserted(c) /\ Published(c) /\ c \in pendingTrigger
                         /\ Len(caps[c].log) = 4
    /\ \E d \in CapIds : /\ caps[d].pc = "done" /\ caps[d].dbErr
                         /\ caps[d].status = StatusInternalServerError
                         /\ FirstSignature(caps[d].headers, 1) # <<>>
                         /\ ~Inserted(d) /\ ~Published(d) /\ ~Scheduled(d)

\* an answered capture whose row is stored was answered 200
C10_Answer ==
    \A c \in CapIds : (Inserted(c) /\ caps[c].pc = "done") => caps[c].status = StatusOK

\* C10: once the row of a capture is stored its handler answers 200, with
\* nothing assumed of the forwarding goroutines, of their targets or of the
\* subscribers' reading of their queues.
C10_Responds ==
    /\ \A c \in CapIds : Inserted(c) ~> (caps[c].status = StatusOK)
    /\ [](C10_Answer)

\* C10 witness: a capture answered 200 while its forwarding has not even
\* started, the forwarding of the other capture is in its backoff sleep, and
\* the event of the capture was dropped at a full subscriber queue.
C10_Witness ==
    \E c \in CapIds : \E d \in CapIds :
        /\ caps[c].status = StatusOK /\ c \in pendingTrigger
        /\ \E conn \in ConnIds : /\ conn \in sseConnections[EndpointKey(caps[c].endpoint_id)]
                                 /\ Len(sseCh[conn]) = SSEBuffer
                                 /\ c \notin Range(sseCh[conn])
        /\ \E k \in RuleIds : tasks[<<d, k>>].pc = "sleep"

AdmissionErrors == {StatusNotFound, StatusRequestEntityTooLarge,
                    StatusTooManyRequests, StatusUnauthorized}

\* a capture answered with an admission error has no row, no event and no
\* forwarding
C11_Untouched ==
    \A c \in CapIds :
        caps[c].status \in AdmissionErrors =>
            /\ ~Inserted(c) /\ ~Published(c) /\ ~Scheduled(c)
            /\ caps[c].log = <<>>
\* the step that answers an admission error changes no table, queue or task
C11_Step ==
    \A c \in CapIds :
        (caps[c].status = 0 /\ caps'[c].status \in AdmissionErrors) =>
            UNCHANGED <<requests, sseVars, forwardVars>>
\* C11: a capture that ends with 404, 413, 429 or 401 leaves the persistent
\* and bus state untouched: no request row, no event published, no forwarding
\* task started, at the answer and ever after.
C11_AdmissionErrors == [](C11_Untouched) /\ [][C11_Step]_vars

\* C11 witness: one capture stored and published, the other rejected by the
\* rate limiter, and the stored one's row is the only row.
C11_Witness ==
    \E c \in CapIds : \E d \in CapIds :
        /\ Inserted(c) /\ Published(c) /\ Scheduled(c)
        /\ caps[d].status = StatusTooManyRequests /\ caps[d].pc = "done"
        /\ Cardinality(requests) = 1

\* the size check at the boundary: max_body_size bytes pass, one more is 413
C12_Boundary ==
    \A c \in CapIds :
        /\ (caps[c].pc # "idle" /\ Len(caps[c].body) = MaxBodySize) =>
              caps[c].status # StatusRequestEntityTooLarge
        /\ caps[c].status = StatusRequestEntityTooLarge =>
              Len(caps[c].body) = MaxBodySize + 1

\* C12 as stated: the boundary, and for every persisted request body_size is
\* the length of the persisted body, which is at most max_body_size.
C12_AsStated ==
    /\ C12_Boundary
    /\ \A q \in requests :
          /\ q.body_size = Len(q.body.text)
          /\ Len(q.body.text) <= MaxBodySize

\* C12 as amended: the boundary, and for every persisted request body_size is
\* the length in bytes of the body as received, at most max_body_size; the
\* persisted body has that length when the body is text, and the length of
\* its base64 text, 4 * ceil(body_size / 3), when it is not valid UTF-8.
C12_Sizes ==
    /\ C12_Boundary
    /\ \A q \in requests :
          LET raw == caps[q.id].body IN
          /\ q.body_size = Len(raw)
          /\ q.body_size <= MaxBodySize
          /\ Utf8Valid(raw) => (q.body.text = raw /\ Len(q.body.text) = q.body_size)
          /\ ~Utf8Valid(raw) => Len(q.body.text) = 4 * ((q.body_size + 2) \div 3)

\* C12 witness: a stored body of exactly max_body_size bytes, a stored binary
\* body would be longer than its body_size, and a capture answered 413.
C12_Witness ==
    /\ \E q \in requests : q.body_size = MaxBodySize /\ Len(q.body.text) = MaxBodySize
    /\ \E c \in CapIds : /\ caps[c].status = StatusRequestEntityTooLarge
                         /\ Len(caps[c].body) = MaxBodySize + 1

\* C13: a body that is not valid UTF-8 is persisted as the marker followed
\* by its base64 text (so that removing the marker and decoding gives the
\* bytes back).
C13_AsStated ==
    \A q \in requests :
        LET raw == caps[q.id].body IN
        ~Utf8Valid(raw) =>
            /\ IsPrefix(BinaryMarker, q.body.text)
            /\ SubSeq(q.body.text, Len(BinaryMarker) + 1, Len(q.body.text)) = Base64(raw)

\* C14: once the event of a capture on the endpoint with slug s has been
\* published, every subscriber of s whose queue had room holds the event.
C14_AsStated ==
    \A c \in CapIds :
        Len(caps[c].log) >= 2 =>
            \A conn \in sseConnections[endpoints[caps[c].endpoint_id].slug] :
                c \in Range(sseCh[conn]) \/ Len(sseCh[conn]) = SSEBuffer

\* a publish is always possible
C15_NeverBlocks ==
    \A c \in CapIds : caps[c].pc = "publish" => ENABLED Publish(c)
\* a publish appends the event to every queue of the key that holds fewer
\* than 10 events and leaves every other queue as it is
C15_Step ==
    \A c \in CapIds :
        (caps[c].pc = "publish" /\ caps'[c].pc = "spawn") =>
            \A conn \in ConnIds :
                sseCh'[conn] =
                    IF /\ conn \in sseConnections[EndpointKey(caps[c].endpoint_id)]
                       /\ Len(sseCh[conn]) < SSEBuffer
                    THEN Append(sseCh[conn], c)
                    ELSE sseCh[conn]
\* C15: broadcastToSSE never blocks on a subscriber; at a queue that holds
\* 10 events the event is dropped for that subscriber only, and every other
\* subscriber of the key with room receives it.
C15_NonBlocking == [](C15_NeverBlocks) /\ [][C15_Step]_vars

\* C15 witness: an event published while the queue of s1 was full: s1 does
\* not hold it, s3 (same key) does, and the publisher went on.
C15_Witness ==
    \E c \in CapIds :
        /\ caps[c].pc \in {"spawn", "done"} /\ Len(caps[c].log) >= 2
        /\ {"s1", "s3"} \subseteq sseConnections[EndpointKey(caps[c].endpoint_id)]
        /\ Len(sseCh["s1"]) = SSEBuffer /\ c \notin Range(sseCh["s1"])
        /\ c \in Range(sseCh["s3"])

\* C16: a rule that is disabled when triggerForwarding reads the rules gets
\* no forwarding task for the request: no call is made and no attempt row is
\* recorded for the pair.
C16_DisabledNeverFires ==
    \A p \in Pairs :
        ~forwarding_rules[p[2]].enabled =>
            /\ tasks[p] = NoTask
            /\ forward_attempts[p] = <<>>

\* C16 witness: triggerForwarding has run; the enabled rule of the endpoint
\* has a finished task with rows, the disabled one (whose condition is none)
\* has none.
C16_Witness ==
    \E r \in CapIds : \E k \in RuleIds : \E j \in RuleIds :
        /\ r \notin pendingTrigger /\ caps[r].pc = "done"
        /\ ~forwarding_rules[k].enabled /\ forwarding_rules[k].condition_type = NULL
        /\ tasks[<<r, k>>] = NoTask
        /\ forwarding_rules[j].enabled /\ tasks[<<r, j>>].pc = "done"
        /\ Len(forward_attempts[<<r, j>>]) > 0

\* the fold as specified: a transformation that fails leaves the value as it
\* was before it ran
RECURSIVE SkippingFold(_, _, _, _)
SkippingFold(table, selected, j, result) ==
    IF j > Len(selected) THEN result
    ELSE LET t == selected[j]
             r == ExecuteTransformation(t, table[t].language, table[t].script, result)
         IN  SkippingFold(table, selected, j + 1, IF r.err THEN result ELSE r.out)

\* C17: ApplyTransformations is a total fold: the enabled transformations
\* whose apply_to is the target or both run in created_at order, each
\* successful output is the next one's input, one that fails is skipped and
\* the chain goes on from the most recent successful value; so the headers
\* and body a task forwards are that fold of the originals, or the originals
\* themselves, and carry nothing of a failed or disabled transformation.
C17_AsStated ==
    \A p \in Pairs :
        tasks[p].pc \in {"exec", "sleep", "done"} =>
            LET e == forwarding_rules[p[2]].endpoint_id
                selected == SelectTransformations(transformations, e, "request", 1)
                body == BodyData(caps[p[1]].body)
            IN  \/ /\ tasks[p].headers = SkippingFold(transformations, selected, 1, HeadersData)
                   /\ tasks[p].body = SkippingFold(transformations, selected, 1, body)
                \/ /\ tasks[p].headers = HeadersData
                   /\ tasks[p].body = body

Min(a, b) == IF a < b THEN a ELSE b

\* C18 as stated: every delay calculateBackoff returns lies in
\* [min_ms, max_ms], defaults applied.
C18_AsStated ==
    \A p \in Pairs : \A i \in DOMAIN tasks[p].sleeps :
        LET cfg == forwarding_rules[p[2]].backoff_config
        IN  /\ tasks[p].sleeps[i] * PerMs >= BackoffMin(cfg)
            /\ tasks[p].sleeps[i] * PerMs <= BackoffMax(cfg)

\* C18 as amended: for non-negative min_ms and max_ms (defaults applied) the
\* delay is a whole number of milliseconds, more than min_ms - 1 ms and at
\* most the larger of min_ms and max_ms; it lies in [min_ms, max_ms] whenever
\* min_ms <= max_ms and min_ms is a whole number of milliseconds.
C18_Delay ==
    \A p \in Pairs : \A i \in DOMAIN tasks[p].sleeps :
        LET cfg == forwarding_rules[p[2]].backoff_config
            lo == BackoffMin(cfg)
            hi == BackoffMax(cfg)
            d == tasks[p].sleeps[i] * PerMs
        IN  /\ d > lo - PerMs
            /\ d <= Max(lo, hi)
            /\ (lo <= hi /\ lo % PerMs = 0) => (d >= lo /\ d <= hi)

\* C18 witness: the second delay of an exponential backoff, cut down to a
\* max_ms above min_ms.
C18_Witness ==
    \E p \in Pairs :
        LET cfg == forwarding_rules[p[2]].backoff_config
        IN  /\ cfg.type = "exponential"
            /\ BackoffMin(cfg) < BackoffMax(cfg)
            /\ Len(tasks[p].sleeps) >= 2
            /\ tasks[p].sleeps[2] * PerMs = BackoffMax(cfg)

\* the scenario of C19: max_retries = 3, linear backoff, a target that
\* answers 500, 500, 200, and the task finished
C19_Scenario(p) ==
    /\ forwarding_rules[p[2]].max_retries = 3
    /\ forwarding_rules[p[2]].backoff_config.type = "linear"
    /\ forwarding_rules[p[2]].target_url = "flaky"
    /\ tasks[p].pc = "done"

\* C19 as stated: in the scenario exactly three rows numbered 1, 2, 3 are
\* recorded, failed, failed, success; the delay before attempt 2 is at
\* least min_ms and that before attempt 3 at least 2 x min_ms, each cut
\* down to max_ms.
C19_AsStated ==
    \A p \in Pairs :
        C19_Scenario(p) =>
            LET cfg == forwarding_rules[p[2]].backoff_config
                rows == forward_attempts[p]
            IN  /\ Len(rows) = 3
                /\ \A i \in DOMAIN rows :
                      /\ rows[i].attempt_number = i
                      /\ rows[i].status = IF i = 3 THEN "success" ELSE "failed"
                /\ Len(tasks[p].sleeps) = 2
                /\ \A i \in DOMAIN tasks[p].sleeps :
                      tasks[p].sleeps[i] * PerMs
                          >= Min(i * BackoffMin(cfg), BackoffMax(cfg))

\* C19 as amended: in the scenario three attempts 1, 2, 3 are made, failed,
\* failed, success, and each is recorded unless its insert failed; the
\* delay before attempt 2 is at least min_ms and that before attempt 3 at
\* least 2 x min_ms, each cut down to max_ms and then to whole milliseconds.
C19_Retries ==
    \A p \in Pairs :
        C19_Scenario(p) =>
            LET cfg == forwarding_rules[p[2]].backoff_config
                rows == forward_attempts[p]
            IN  /\ tasks[p].calls = 3
                /\ AttemptNumbers(p) \cup tasks[p].lost = 1..3
                /\ Len(rows) = 3 - Cardinality(tasks[p].lost)
                /\ \A i \in DOMAIN rows :
                      rows[i].status = IF rows[i].attempt_number = 3
                                       THEN "success" ELSE "failed"
                /\ Len(tasks[p].sleeps) = 2
                /\ \A i \in DOMAIN tasks[p].sleeps :
                      tasks[p].sleeps[i]
                          >= Trunc(Min(i * BackoffMin(cfg), BackoffMax(cfg)))

\* C19 witness: the scenario with min_ms = 10 ms and max_ms = 25 ms, all
\* three rows recorded, after delays of 10 ms and 20 ms.
C19_Witness ==
    \E p \in Pairs :
        /\ C19_Scenario(p)
        /\ Len(forward_attempts[p]) = 3
        /\ forward_attempts[p][3].status = "success"
        /\ tasks[p].sleeps = <<10, 20>>

\* C20: the retry loop sleeps only between two attempts: a sleep starts only
\* after a failed attempt that is not the last permitted one, every sleep is
\* followed by an attempt, and a rule with max_retries = 1 gets exactly one
\* attempt and no sleep.
C20_SleepBetween ==
    \A p \in Pairs :
        LET t == tasks[p]
            m == Max(1, forwarding_rules[p[2]].max_retries)
        IN  /\ t.pc = "sleep" => (t.result = "failed" /\ t.calls < m)
            /\ Len(t.sleeps) <= t.calls
            /\ Len(t.sleeps) < m
            /\ t.pc \in {"sleep", "done"} => Len(t.sleeps) = t.calls - 1
            /\ forwarding_rules[p[2]].max_retries = 1 =>
                  /\ t.sleeps = <<>> /\ t.pc # "sleep" /\ t.calls <= 1
                  /\ t.pc = "done" => t.calls = 1

\* C20 witness: a rule with max_retries = 1 whose only attempt failed, and
\* the task finished without a sleep.
C20_Witness ==
    \E p \in Pairs :
        /\ forwarding_rules[p[2]].max_retries = 1
        /\ tasks[p].pc = "done" /\ tasks[p].result = "failed"
        /\ tasks[p].calls = 1 /\ tasks[p].sleeps = <<>>

\* C24 as stated: with exponential backoff the sleep between a failed
\* attempt 1 and attempt 2 is min_ms x base, clamped to [min_ms, max_ms]
\* (whole milliseconds).
C24_AsStated ==
    \A p \in Pairs :
        LET cfg == forwarding_rules[p[2]].backoff_config
        IN  (cfg.type = "exponential" /\ Len(tasks[p].sleeps) >= 1) =>
                tasks[p].sleeps[1] =
                    Trunc(Clamp(BackoffMin(cfg) * BackoffBase(cfg),
                                BackoffMin(cfg), BackoffMax(cfg)))

\* C24 as amended: with exponential backoff the delay after failed attempt n
\* is min_ms x base x (n - 1) with n the number of the attempt that failed:
\* between a failed attempt 1 and attempt 2 the raw delay is 0, so the task
\* sleeps min_ms, whatever base and max_ms are; min_ms x base (clamped to
\* [min_ms, max_ms]) is the sleep between a failed attempt 2 and attempt 3.
\* Delays are whole milliseconds.
C24_FirstRetry ==
    \A p \in Pairs :
        LET cfg == forwarding_rules[p[2]].backoff_config
        IN  cfg.type = "exponential" =>
                /\ Len(tasks[p].sleeps) >= 1 =>
                      tasks[p].sleeps[1] = Trunc(BackoffMin(cfg))
                /\ Len(tasks[p].sleeps) >= 2 =>
                      tasks[p].sleeps[2] =
                          Trunc(Clamp(BackoffMin(cfg) * BackoffBase(cfg),
                                      BackoffMin(cfg), BackoffMax(cfg)))

\* C24 witness: min_ms = 10 ms, base 2 by default, max_ms = 25 ms: the task
\* slept 10 ms after its first failure and 20 ms after its second.
C24_Witness ==
    \E p \in Pairs :
        /\ forwarding_rules[p[2]].backoff_config.type = "exponential"
        /\ forwarding_rules[p[2]].backoff_config.base = 0
        /\ tasks[p].sleeps = <<10, 20>>

\* the schedule of C25 for attempt n, in units of 1/PerMs ms: defaults 2,
\* 1000 and 30000 for an absent or zero value, the raw delay by type, the
\* upper bound applied and then the lower bound
C25_Reference(n, cfg) ==
    LET base == IF cfg.base = 0 THEN 2 ELSE cfg.base
        lo == IF cfg.min_ms = 0 THEN 1000 * PerMs ELSE cfg.min_ms
        hi == IF cfg.max_ms = 0 THEN 30000 * PerMs ELSE cfg.max_ms
        raw == IF cfg.type = "exponential" THEN lo * base * (n - 1)
               ELSE IF cfg.type = "linear" THEN lo * n
               ELSE lo
    IN  Max(lo, Min(raw, hi))

\* C25 as stated: for every attempt number n and every config the delay of
\* calculateBackoff equals the reference schedule.
C25_AsStated ==
    \A p \in Pairs : \A n \in DOMAIN tasks[p].sleeps :
        tasks[p].sleeps[n] * PerMs
            = C25_Reference(n, forwarding_rules[p[2]].backoff_config)

\* C25 as amended: for every attempt number n and every config with
\* non-negative min_ms and max_ms, the delay of calculateBackoff is the
\* reference schedule (upper bound max_ms applied first, lower bound min_ms
\* last, so min_ms wins when min_ms > max_ms) with the fraction of a
\* millisecond dropped.
C25_Schedule ==
    \A p \in Pairs : \A n \in DOMAIN tasks[p].sleeps :
        LET ref == C25_Reference(n, forwarding_rules[p[2]].backoff_config)
        IN  /\ tasks[p].sleeps[n] * PerMs <= ref
            /\ tasks[p].sleeps[n] * PerMs > ref - PerMs

\* C25 witness: a linear backoff with fractional min_ms = 1.5 ms and no
\* max_ms: delays of 1 ms and 3 ms.
C25_Witness ==
    \E p \in Pairs :
        /\ forwarding_rules[p[2]].backoff_config.type = "linear"
        /\ forwarding_rules[p[2]].backoff_config.min_ms = 3
        /\ forwarding_rules[p[2]].backoff_config.max_ms = 0
        /\ tasks[p].sleeps = <<1, 3>>

\* an HTTP response with status < 400 is what the target gives the n-th call
C26_Received(target_url, n) ==
    \E answer \in TargetAnswers(target_url, n) :
        answer[1] = "response" /\ answer[2] < 400

\* the status of every recorded row says whether the call got a response
\* with status < 400, and the loop has stopped on a success and not gone on
\* after one
C26_Statuses(p) ==
    LET rows == forward_attempts[p]
        t == tasks[p]
        url == forwarding_rules[p[2]].target_url
    IN  /\ \A i \in DOMAIN rows :
              (rows[i].status = "success") <=> C26_Received(url, rows[i].attempt_number)
        /\ \A i \in DOMAIN rows :
              rows[i].status = "success" =>
                  /\ i = Len(rows) /\ rows[i].attempt_number = t.calls
                  /\ t.pc = "done"
        /\ (t.calls >= 1 /\ t.pc \in {"exec", "sleep"}) => ~C26_Received(url, t.calls)

\* C26 as stated: each call of executeForward records exactly one row,
\* whether it ended in a response, a transport error or a request
\* construction error; the row's status is success iff a response with
\* status < 400 was received; the loop stops on exactly the attempts
\* recorded as success.
C26_AsStated ==
    \A p \in Pairs :
        /\ Len(forward_attempts[p]) = tasks[p].calls
        /\ C26_Statuses(p)
        /\ (tasks[p].pc = "done" /\ tasks[p].calls < tasks[p].maxRetries) =>
              HasSuccess(forward_attempts[p])

\* C26 as amended: each call of executeForward issues exactly one insert of
\* a forward_attempts row, whether it ended in a response, a transport error
\* or a request construction error, and the row is recorded unless that
\* insert failed; a recorded row's status is success iff a response with
\* status < 400 was received; the loop stops on exactly the attempts that
\* got such a response, recorded or not.
C26_OneRowPerCall ==
    \A p \in Pairs :
        /\ AttemptNumbers(p) \cup tasks[p].lost = 1..tasks[p].calls
        /\ Len(forward_attempts[p]) + Cardinality(tasks[p].lost) = tasks[p].calls
        /\ C26_Statuses(p)
        /\ (tasks[p].pc = "done" /\ tasks[p].calls < tasks[p].maxRetries) =>
              C26_Received(forwarding_rules[p[2]].target_url, tasks[p].calls)

\* C26 witness: the task against "edge" recorded failed (400) and success
\* (399) and stopped before its third attempt, while the task against a
\* URL that cannot be requested recorded a failed row for each of its calls.
C26_Witness ==
    /\ \E p \in Pairs :
          /\ forwarding_rules[p[2]].target_url = "edge"
          /\ forwarding_rules[p[2]].max_retries = 3
          /\ tasks[p].pc = "done"
          /\ Len(forward_attempts[p]) = 2
          /\ forward_attempts[p][1].status = "failed"
          /\ forward_attempts[p][2].status = "success"
    /\ \E p \in Pairs :
          /\ forwarding_rules[p[2]].target_url = "badurl"
          /\ tasks[p].pc = "done"
          /\ Len(forward_attempts[p]) = 2
          /\ forward_attempts[p][2].status = "failed"

\* the condition of a rule as C27 describes it, for a captured request
C27_Matches(rule, req) ==
    IF rule.condition_type = "header_match"
    THEN /\ {"header", "value"} \subseteq rule.condition_config.keys
         /\ rule.condition_config.header \in DOMAIN req.headers
         /\ req.headers[rule.condition_config.header] # <<>>
         /\ Head(req.headers[rule.condition_config.header]) = rule.condition_config.value
    ELSE IF rule.condition_type = "body_match"
    THEN /\ "pattern" \in rule.condition_config.keys
         /\ \E i \in 1..(Len(req.body) + 1) : \E j \in (i - 1)..Len(req.body) :
               SubSeq(req.body, i, j) = rule.condition_config.pattern
    ELSE TRUE

\* C27: checkForwardingCondition matches for type always, for no condition
\* type and for any unknown type; for header_match iff the captured headers
\* hold the configured name and its first value is the configured value; for
\* body_match iff the body contains the pattern; never when the config lacks
\* its string fields.  So triggerForwarding can start a task for a rule
\* exactly when the rule is enabled and its condition matches in this sense.
C27_Conditions ==
    \A r \in pendingTrigger : \A k \in RuleIds :
        (forwarding_rules[k].enabled /\ C27_Matches(forwarding_rules[k], caps[r]))
            <=> ENABLED (TriggerForwarding(r) /\ tasks'[<<r, k>>].pc = "start")

\* C27 witness: a task was started for a rule of unknown condition type, for
\* a request on which the header_match rule did not fire because the first
\* value of the header is another one.
C27_Witness ==
    \E r \in CapIds :
        /\ forwarding_rules["k1"].condition_type = "regex"
        /\ tasks[<<r, "k1">>].pc = "done"
        /\ tasks[<<r, "k2">>] = NoTask
        /\ Len(caps[r].headers["X-Event"]) = 2

\* C28 as stated: a string output of the transformations is sent as its
\* bytes verbatim, any other non-nil output JSON-encoded, and a nil output
\* sends no body.
C28_AsStated ==
    \A p \in Pairs :
        tasks[p].pc \in {"exec", "sleep", "done"} =>
            LET out == tasks[p].body
                sent == tasks[p].forwardBody
            IN  /\ out.kind = "string" => (sent.form = "verbatim" /\ sent.data = out)
                /\ out.kind = "map" => (sent.form = "json" /\ sent.data = out)
                /\ out.kind = "nil" => (sent.form = "original" /\ sent.bytes = <<>>)

\* C28 as amended: a string output of the transformations is sent as its
\* bytes verbatim and any other non-nil output JSON-encoded; for a nil output
\* the body of the captured request is sent as it was received, so no body is
\* sent only when the captured request had none.
C28_OutgoingBody ==
    \A p \in Pairs :
        tasks[p].pc \in {"exec", "sleep", "done"} =>
            LET out == tasks[p].body
                sent == tasks[p].forwardBody
            IN  /\ out.kind = "string" => (sent.form = "verbatim" /\ sent.data = out)
                /\ out.kind = "map" => (sent.form = "json" /\ sent.data = out)
                /\ out.kind = "nil" =>
                      (sent.form = "original" /\ sent.bytes = caps[p[1]].body)

\* C28 witness: the last transformation of a non-empty body returned null,
\* and the task forwards the captured body.
C28_Witness ==
    \E p \in Pairs :
        /\ tasks[p].pc = "done"
        /\ Len(transformations) = 2
        /\ transformations[1].enabled /\ transformations[1].script = "object"
        /\ transformations[1].apply_to = "request"
        /\ transformations[2].enabled /\ transformations[2].script = "null"
        /\ transformations[2].apply_to = "both"
        /\ tasks[p].body.kind = "nil"
        /\ tasks[p].forwardBody.bytes # <<>>

\* a started task that has not finished can take its next step, whatever
\* the other tasks are doing
C29_NeverWaits ==
    \A p \in Pairs :
        tasks[p].pc \in {"start", "exec", "sleep"} => ENABLED ForwardTask(p[1], p[2])

\* triggerForwarding can give every enabled rule that matches a task of its
\* own
C29_OwnTask ==
    \A r \in pendingTrigger :
        ENABLED (/\ TriggerForwarding(r)
                 /\ \A k \in RuleIds :
                       RuleFires(forwarding_rules[k], caps[r])
                           => tasks'[<<r, k>>].pc = "start")

\* a step of a started task changes neither the locals nor the recorded
\* attempts of another task; triggerForwarding starts the tasks of all
\* matching enabled rules or, its rule query failing, of none
C29_Step ==
    /\ \A p \in Pairs : \A q \in Pairs \ {p} :
          (tasks[p].pc # "none" /\ tasks'[p] # tasks[p]) =>
              (tasks'[q] = tasks[q] /\ forward_attempts'[q] = forward_attempts[q])
    /\ \A r \in pendingTrigger :
          r \notin pendingTrigger' =>
              \/ \A k \in RuleIds : tasks'[<<r, k>>] = tasks[<<r, k>>]
              \/ \A k \in RuleIds :
                    RuleFires(forwarding_rules[k], caps[r]) => tasks'[<<r, k>>].pc = "start"

C21_RowState ==
    \A i \in ReplayIds :
        LET t == replayTasks[i]
            row == replays[i]
        IN  /\ t.pc \in {"exec", "done"} => row.exists
            /\ ~row.exists => t.sent = <<>> /\ t.answer = <<"none", 0>>
            /\ row.status \in {"pending", "success", "failed"}
            /\ row.status = "pending" => row.attempts = 0
            /\ row.status # "pending" =>
                  /\ row.exists /\ row.attempts = 1 /\ t.pc = "done"
                  /\ row.status = "success" <=>
                        (t.answer[1] = "response" /\ t.answer[2] < 400)
            /\ Len(t.sent) <= 1
C21_Step ==
    \A i \in ReplayIds :
        replays'[i] # replays[i] =>
            \/ /\ ~replays[i].exists /\ replays'[i].exists
               /\ replays'[i].status = "pending" /\ replays'[i].attempts = 0
               /\ replayTasks[i].pc = "idle" /\ replayTasks'[i].pc = "exec"
               /\ replayTasks'[i].sent = <<>>
            \/ /\ replays[i].exists /\ replays[i].status = "pending"
               /\ replays'[i].status \in {"success", "failed"}
               /\ replays'[i].attempts = 1
               /\ replayTasks[i].pc = "exec" /\ replayTasks'[i].pc = "done"
C21_Lifecycle == [](C21_RowState) /\ [][C21_Step]_vars
C21_Witness ==
    \E i \in ReplayIds :
        /\ replays[i].exists /\ replays[i].status = "failed" /\ replays[i].attempts = 1
        /\ replayTasks[i].answer = <<"response", 400>>

\* C22: a replay that overrides the method only and whose call is answered
\* makes exactly one outbound call, with the overriding method, the original
\* headers and the body of the original request as the request
\* transformations leave it, and ends as success iff the response status is
\* below 400.
C22_Original(i) ==
    LET r == replayTasks[i].given.request_id
        body == caps[r].body
    IN  {FinalBody(RequestTransformations(transformations, caps[r].endpoint_id,
                                          HeadersData, BodyData(body), okH, okB).body,
                   body) : okH \in BOOLEAN, okB \in BOOLEAN}
C22_AsStated ==
    \A i \in ReplayIds :
        LET t == replayTasks[i] IN
        (/\ t.pc = "done" /\ t.answer[1] = "response"
         /\ t.given.method = "PUT" /\ t.given.headers = "absent" /\ t.given.body = {})
        => /\ Len(t.sent) = 1
           /\ t.sent[1].method = "PUT"
           /\ t.sent[1].headers.from = "original"
           /\ t.sent[1].body \in C22_Original(i)
           /\ ~t.lost => (replays[i].status = "success" <=> t.answer[2] < 400)

\* C30: the work spawned by a capture or by a replay call goes on after the
\* inbound request is over: once the handler has answered, the rule lookup
\* can still find the rules and start their tasks, a task can still get its
\* transformations applied, its outbound call answered and its attempt
\* recorded, and the executor of a replay can still get its call answered.
C30_Lookup ==
    \A r \in pendingTrigger :
        (caps[r].pc = "done" /\ \E k \in RuleIds : RuleFires(forwarding_rules[k], caps[r]))
        => ENABLED (TriggerForwarding(r) /\ \E k \in RuleIds : tasks'[<<r, k>>].pc = "start")
C30_Calls ==
    \A r \in CapIds, k \in RuleIds :
        LET t == tasks[<<r, k>>] IN
        /\ (t.pc = "start" /\ caps[r].pc = "done" /\ transformations # <<>>)
           => ENABLED (ForwardTask(r, k) /\ tasks'[<<r, k>>].body.applied # <<>>)
        /\ (t.pc = "exec" /\ caps[r].pc = "done" /\ t.target_url = "any")
           => ENABLED (/\ ForwardTask(r, k)
                       /\ tasks'[<<r, k>>].result = "success"
                       /\ Len(forward_attempts'[<<r, k>>]) = Len(forward_attempts[<<r, k>>]) + 1)
C30_Replay ==
    \A i \in ReplayIds :
        (replayTasks[i].pc = "exec" /\ replayTasks[i].status = StatusOK)
        => ENABLED (ExecuteReplay(i) /\ replays'[i].status = "success")
C30_Outlives == C30_Lookup /\ C30_Calls /\ C30_Replay
C30_Witness ==
    /\ \E r \in CapIds, k \in RuleIds :
          /\ caps[r].pc = "done" /\ tasks[<<r, k>>].result = "success"
          /\ tasks[<<r, k>>].body.applied # <<>>
          /\ forward_attempts[<<r, k>>] # <<>>
    /\ \E i \in ReplayIds : replayTasks[i].status = StatusOK /\ replays[i].status = "success"

\* C23: while the server keeps running, a request of an endpoint whose
\* policy has auto_delete = true and that is older than retention_days does
\* not stay: it is deleted (or the policy is changed so that it may stay).
C23_Overdue(c) ==
    \E row \in requests :
        /\ row.id = c
        /\ retention_policies[row.endpoint_id].exists
        /\ retention_policies[row.endpoint_id].auto_delete
        /\ Overdue(row.received_at, clock, retention_policies[row.endpoint_id].retention_days)
C23_AsStated == \A c \in CapIds : C23_Overdue(c) ~> ~C23_Overdue(c)

\* C31: no broadcastToSSE call ever sends on a closed channel; a channel is
\* closed only after its connection has left the registry; and once a
\* disconnect is complete the registry holds neither the connection nor an
\* empty set for its key (the key is absent when its last subscriber left).
C31_Registry ==
    /\ ~ssePanic
    /\ \A conn \in sseClosed : \A key \in SSEKeys : conn \notin sseConnections[key]
    /\ \A conn \in ConnIds :
          subs[conn].pc = "gone" =>
              /\ subs[conn].did = <<"remove", "close">>
              /\ conn \in sseClosed
              /\ \A key \in SSEKeys : conn \notin sseConnections[key]
              /\ sseConnections[subs[conn].key] = {} => subs[conn].key \notin sseKeys
    /\ \A key \in sseKeys : sseConnections[key] # {}
    /\ \A b \in PubIds : pubs[b].todo \cap sseClosed = {}
C31_Step ==
    \A conn \in ConnIds :
        (conn \notin sseClosed /\ conn \in sseClosed')
        => \A key \in SSEKeys : conn \notin sseConnections[key]
C31_CloseAfterRemove == [](C31_Registry) /\ [][C31_Step]_vars
C31_Witness ==
    /\ subs["s1"].pc = "gone" /\ "s1" \in sseClosed
    /\ \E b \in PubIds : pubs[b].pc = "loop" /\ pubs[b].key = subs["s1"].key
    /\ \E b \in PubIds : pubs[b].stale

\* C32: a capture during which a database query failed (the slug lookup,
\* the settings read of CheckRateLimit, the settings read of
\* VerifySignature or the insert) is answered with a 5xx status and leaves
\* no row in requests.
C32_AsStated ==
    \A c \in CapIds :
        (caps[c].pc = "done" /\ caps[c].dbErr)
        => /\ caps[c].status >= StatusInternalServerError
           /\ ~\E row \in requests : row.id = c

\* C33: forwardRequest never stops at its transformations: it goes on to
\* its first attempt either with the outputs of the transformations or,
\* when they failed as a whole, with the original headers and body.
C33_Start(r, k) ==
    LET fwd == tasks'[<<r, k>>]
        e == forwarding_rules[k].endpoint_id
        body == BodyData(caps[r].body)
        h == ApplyTransformations(transformations, e, "request", HeadersData, TRUE)
        b == ApplyTransformations(transformations, e, "request", body, TRUE)
    IN  /\ fwd.pc = "exec" /\ fwd.attempt = 1
        /\ \/ fwd.headers = h.result /\ fwd.body = b.result
           \/ fwd.headers = HeadersData /\ fwd.body = body
C33_AsStated ==
    [][\A r \in CapIds, k \in RuleIds :
          (tasks[<<r, k>>].pc = "start" /\ tasks'[<<r, k>>] # tasks[<<r, k>>])
          => C33_Start(r, k)]_vars

\* C34: a sweep deletes a request only when the policy of its endpoint has
\* auto_delete = true and the request's received_at precedes now minus
\* retention_days; and the failure of the delete for one endpoint does not
\* keep the sweep from deleting the overdue requests of another.
C34_MayGo(row) ==
    LET policy == retention_policies[row.endpoint_id]
    IN  /\ policy.exists /\ policy.auto_delete
        /\ Overdue(row.received_at, clock, policy.retention_days)
C34_OnlyOverdue == \A row \in requests : row \notin requests' => C34_MayGo(row)
C34_GoesOn ==
    \A row \in requests, other \in requests :
        (C34_MayGo(row) /\ C34_MayGo(other) /\ row.endpoint_id # other.endpoint_id)
        => ENABLED (CleanupOldRequests /\ row \in requests' /\ other \notin requests')
C34_AsStated == [](C34_GoesOn) /\ [][C34_OnlyOverdue]_vars

\* C34 for retentions that fit a time.Duration (up to 106751 days): the
\* same, and a sweep whose deletes succeed leaves no overdue request of an
\* auto_delete endpoint.
C34_Fits == \A e \in PolicyEndpoints : retention_policies[e].retention_days < LongRetention
C34_InRange ==
    /\ [](C34_GoesOn)
    /\ [][C34_Fits => C34_OnlyOverdue]_vars
    /\ [](C34_Fits =>
            ENABLED (CleanupOldRequests /\ \A row \in requests' : ~C34_MayGo(row)))

\* C35: VerifySignature judges the first non-empty signature header in the
\* order X-Signature, X-Hub-Signature-256, X-Stripe-Signature, Signature,
\* and nothing after it: the capture passes when that value is the digest of
\* the body, bare or behind the "<algorithm>=" prefix, and is answered 401
\* when it is anything else, whatever the later headers carry.
C35_Judged(c) == caps[c].pc # "idle" /\ caps[c].pc # "verify" /\ ~caps[c].dbErr
C35_Given(c) == {i \in DOMAIN SigHeaders : HeaderGet(caps[c].headers, SigHeaders[i]) # <<>>}
C35_Digest(c) ==
    LET st == endpoint_settings[caps[c].endpoint_id]
    IN  HmacHex(HashOf(st.hmac_algorithm), st.hmac_secret, caps[c].body)
C35_FirstHeader ==
    \A c \in CapIds :
        (C35_Judged(c) /\ C35_Given(c) # {}) =>
            LET first == CHOOSE i \in C35_Given(c) : \A j \in C35_Given(c) : i <= j
                value == HeaderGet(caps[c].headers, SigHeaders[first])
                prefix == Prefix(endpoint_settings[caps[c].endpoint_id].hmac_algorithm)
            IN  IF value \in {<<C35_Digest(c)>>, <<prefix, C35_Digest(c)>>}
                THEN caps[c].pc = "insert"
                ELSE caps[c].pc = "done" /\ caps[c].status = StatusUnauthorized
\* a wrong X-Signature together with the right digest in X-Hub-Signature-256
\* has been answered 401
C35_Witness ==
    \E c \in CapIds :
        /\ C35_Judged(c) /\ caps[c].status = StatusUnauthorized
        /\ HeaderGet(caps[c].headers, "X-Signature") \notin {<<>>, <<C35_Digest(c)>>}
        /\ HeaderGet(caps[c].headers, "X-Hub-Signature-256") = <<C35_Digest(c)>>

\* C36: a step of CheckRateLimit for a capture of endpoint A leaves the
\* sequence of every other endpoint as it was; it puts its timestamp at the
\* end of A's sequence when it admits the call under a settings row, and
\* otherwise (denied, or no settings row) adds nothing to it; and whether
\* it admits depends on A's own sequence alone.
C36_Call(c) == caps[c] # caps'[c] /\ caps[c].pc \in {"rl_read", "rl_lock"}
C36_Own(c) ==
    LET e == caps[c].endpoint_id
        cleaned == CleanOld(limiter[e], caps[c].now)
        full == LimitExceeded(cleaned, caps[c].now, endpoint_settings[e])
    IN  /\ caps[c].pc = "rl_read" => limiter'[e] = limiter[e]
        /\ caps[c].pc = "rl_lock" =>
              IF full
              THEN /\ caps'[c].status = StatusTooManyRequests
                   /\ limiter'[e] = cleaned
              ELSE /\ caps'[c].pc = "verify"
                   /\ limiter'[e] = Append(cleaned, caps[c].now)
C36_Step ==
    /\ \A c \in CapIds : C36_Call(c) =>
          /\ C36_Own(c)
          /\ \A e \in PolicyEndpoints \ {caps[c].endpoint_id} : limiter'[e] = limiter[e]
    /\ (\A c \in CapIds : ~C36_Call(c)) => limiter' = limiter
C36_PerEndpoint == [][C36_Step]_vars
\* e1 is at its limit and has just been denied while e2, under the same
\* limit, has been admitted with e1's timestamps in place
C36_Witness ==
    /\ caps[1].status = StatusTooManyRequests
    /\ caps[2].pc = "verify" /\ endpoint_settings["e2"].exists
    /\ endpoint_settings["e1"] = endpoint_settings["e2"]
    /\ Len(limiter["e1"]) > 0 /\ Len(limiter["e2"]) > 0

\* C37 as stated: in the window of the last minute the request rows of an
\* endpoint never outnumber the timestamps with which the limiter admitted.
C37_InWindow(t) == t > clock - Minute
C37_AsStated ==
    \A e \in Endpoints :
        Cardinality({q \in requests : q.endpoint_id = e /\ C37_InWindow(q.received_at)})
            <= CountAfter(admitted[EndpointKey(e)], clock - Minute)

\* the capture took the lock of the limiter and was admitted there
C37_Took(c) == caps[c].order > 0 /\ caps[c].status # StatusTooManyRequests
\* C37: a capture admitted under the lock of the limiter has its timestamp
\* in the endpoint's sequence however it ends (401, failed insert, 200), for
\* as long as the timestamp is less than an hour old; a capture answered 400,
\* 404 or 413 never took the lock; every request row belongs to a capture the
\* limiter let through, with a timestamp unless its settings read failed; so
\* over the whole run the rows never outnumber the captures let through.
C37_ConsumedFirst ==
    /\ \A c \in CapIds :
          C37_Took(c) =>
              LET key == EndpointKey(caps[c].endpoint_id)
              IN  /\ caps[c].now \in Range(admitted[key])
                  /\ caps[c].now \in Range(limiter[key]) \/ caps[c].now <= clock - Hour
    /\ \A c \in CapIds :
          caps[c].status \in {StatusBadRequest, StatusNotFound, StatusRequestEntityTooLarge}
              => caps[c].order = 0
    /\ \A e \in Endpoints :
          Len(admitted[EndpointKey(e)])
              = Cardinality({c \in CapIds : caps[c].endpoint_id = e /\ C37_Took(c)})
    /\ \A q \in requests :
          /\ caps[q.id].endpoint_id = q.endpoint_id
          /\ C37_Took(q.id) \/ (caps[q.id].dbErr /\ caps[q.id].order = 0)
\* a capture admitted by the limiter and then answered 401, its timestamp in
\* place, beside a capture denied because of it; no row exists
C37_Witness ==
    \E c \in CapIds : \E d \in CapIds :
        /\ C37_Took(c) /\ caps[c].status = StatusUnauthorized
        /\ caps[c].now \in Range(limiter[EndpointKey(caps[c].endpoint_id)])
        /\ caps[d].status = StatusTooManyRequests /\ caps[d].order > caps[c].order
        /\ requests = {}

\* C38: a forwarding task works on the rule as triggerForwarding read it.
\* When the task is spawned its target, backoff, max_retries and endpoint
\* are those of the rule's row at that moment; no later step changes them;
\* the retry bound is the clamp of the max_retries it was spawned with; a
\* step that edits or deletes a rule changes no task; a task that has
\* not finished can always take its next step, whatever has become of its
\* rule; and a task whose attempts all failed has made as many calls as its
\* own retry bound says.
C38_Snapshot(t, rule) ==
    /\ t.target_url = rule.target_url /\ t.backoff = rule.backoff_config
    /\ t.max_retries = rule.max_retries /\ t.endpoint_id = rule.endpoint_id
C38_Step ==
    \A p \in DOMAIN tasks :
        /\ (tasks[p].pc = "none" /\ tasks'[p].pc # "none")
              => C38_Snapshot(tasks'[p], forwarding_rules[p[2]])
        /\ tasks[p].pc # "none" =>
              /\ tasks'[p].target_url = tasks[p].target_url
              /\ tasks'[p].backoff = tasks[p].backoff
              /\ tasks'[p].max_retries = tasks[p].max_retries
              /\ tasks'[p].endpoint_id = tasks[p].endpoint_id
        /\ tasks[p].pc \notin {"none", "start"} => tasks'[p].maxRetries = tasks[p].maxRetries
        /\ forwarding_rules' # forwarding_rules => tasks' = tasks
C38_State ==
    \A p \in DOMAIN tasks :
        /\ tasks[p].pc \notin {"none", "start"}
              => tasks[p].maxRetries = RetryBound(tasks[p].max_retries)
        /\ tasks[p].pc \in {"start", "exec", "sleep"} => ENABLED ForwardTask(p[1], p[2])
        /\ (tasks[p].pc = "done" /\ tasks[p].result = "failed")
              => tasks[p].calls = tasks[p].maxRetries
C38_SnapshotKept == [](C38_State) /\ [][C38_Step]_vars
\* a task spawned under max_retries = 2 has made its two calls although
\* its rule was deleted, or disabled with another max_retries, target and
\* backoff, before its first call
C38_Witness ==
    \E p \in DOMAIN tasks :
        /\ tasks[p].pc = "done" /\ tasks[p].calls = 2 /\ tasks[p].max_retries = 2
        /\ tasks[p].lost = {1, 2}
        /\ forwarding_rules[p[2]] = NoRule

\* C39: what the retry loop does after an attempt depends on the outcome of
\* the call alone.  An attempt that succeeded ends the task, one that failed
\* is followed by the sleep and attempt k+1 while k is below the retry
\* bound, whether or not the row of the attempt could be written; each
\* outcome that can follow with the row written can follow with the row
\* lost, and the other way round; at most one row is written per call, and
\* the number of a lost row never turns up later.
C39_Pcs == {"exec", "sleep", "done"}
C39_Results == {"success", "failed"}
C39_Call(p) == tasks[p].pc = "exec" /\ tasks'[p] # tasks[p]
C39_Next(p, written, pc, result) ==
    /\ ExecuteForward(p[1], p[2])
    /\ Len(forward_attempts'[p]) = Len(forward_attempts[p]) + (IF written THEN 1 ELSE 0)
    /\ tasks'[p].pc = pc /\ tasks'[p].result = result
C39_Step ==
    \A p \in DOMAIN tasks :
        C39_Call(p) =>
            /\ tasks'[p].calls = tasks[p].calls + 1
            /\ tasks'[p].attempt \in {tasks[p].attempt, tasks[p].attempt + 1}
            /\ tasks'[p].pc =
                  IF tasks'[p].result = "success" THEN "done"
                  ELSE IF tasks[p].attempt < tasks[p].maxRetries THEN "sleep" ELSE "done"
            /\ Len(forward_attempts'[p]) - Len(forward_attempts[p]) \in {0, 1}
C39_State ==
    \A p \in DOMAIN tasks :
        /\ AttemptNumbers(p) \cap tasks[p].lost = {}
        /\ tasks[p].pc = "exec" =>
              \A pc \in C39_Pcs, result \in C39_Results :
                  (ENABLED C39_Next(p, TRUE, pc, result))
                      <=> (ENABLED C39_Next(p, FALSE, pc, result))
C39_OutcomeOnly == [](C39_State) /\ [][C39_Step]_vars
\* the row of attempt 1 was lost and attempt 2 was made and written; and a
\* task has ended on a success whose row was lost
C39_Witness ==
    /\ \E p \in DOMAIN tasks :
          /\ 1 \in tasks[p].lost /\ 2 \in AttemptNumbers(p)
    /\ \E p \in DOMAIN tasks :
          /\ tasks[p].pc = "done" /\ tasks[p].result = "success"
          /\ tasks[p].calls \in tasks[p].lost

\* C40 as stated: a forward whose transformations could be read sends, as
\* headers, the output of the request chain on the captured headers (none
\* when the output is not an object) with the rule's static headers laid
\* over it, and as body the output of the
\* request chain on the body (for an output of nil, whichever body the
\* forwarder sends in its place); with no enabled request transformation
\* the body sent is the body that was captured.
C40_Chain(e) == SelectTransformations(transformations, e, "request", 1)
C40_OnFailure(t, body) ==
    \E okH \in BOOLEAN, okB \in BOOLEAN :
        /\ ~(okH /\ okB)
        /\ LET fwd == RequestTransformations(transformations, t.endpoint_id,
                                             HeadersData, BodyData(body), okH, okB)
           IN  t.headers = fwd.headers /\ t.body = fwd.body
C40_Headers(t) ==
    LET out == ApplyTransformations(transformations, t.endpoint_id, "request",
                                    HeadersData, TRUE).result
    IN  /\ IF out.kind = "map" THEN t.forwardHeaders.chain = out
                                ELSE t.forwardHeaders.chain.kind = "nil"
        /\ t.forwardHeaders.rule = t.rule_headers
C40_Body(t, body) ==
    LET out == ApplyTransformations(transformations, t.endpoint_id, "request",
                                    BodyData(body), TRUE).result
    IN  IF out.kind = "nil"
        THEN t.forwardBody.form = "original"
        ELSE t.forwardBody.form # "original" /\ t.forwardBody.data = out
C40_Originals(t, body) ==
    C40_Chain(t.endpoint_id) = <<>> =>
        /\ t.forwardHeaders.chain = HeadersData
        /\ t.forwardBody.bytes = body
C40_AsStated ==
    \A p \in DOMAIN tasks :
        tasks[p].pc \notin {"none", "start"} =>
            /\ \/ C40_OnFailure(tasks[p], caps[p[1]].body)
               \/ C40_Headers(tasks[p]) /\ C40_Body(tasks[p], caps[p[1]].body)
            /\ C40_Originals(tasks[p], caps[p[1]].body)

====
